---- MODULE Spec2Model ----
(***************************************************************************)
(* Request-orchestration core of glance-china: the worker pool and its     *)
(* registry (performance.Optimizer / WorkerPool / Worker), the token       *)
(* bucket rate limiter (service.TokenBucketLimiter) and the dispatcher     *)
(* (service.ServiceManager.RequestWithFallback).                           *)
(*                                                                         *)
(* Goroutines are processes with a program counter; a Go channel is a      *)
(* bounded sequence (buffered) or a joint step of sender and receiver      *)
(* (unbuffered); a closed channel is a flag every select may observe; a    *)
(* select with several ready cases is a nondeterministic choice.           *)
(***************************************************************************)
EXTENDS Integers, Sequences, FiniteSets, TLC

\* ---------------------------------------------------------------- bounds
MaxWorkers == 1      \* OptimizerConfig.MaxWorkers of the checked configuration
QueueSize == 1       \* OptimizerConfig.QueueSize of the checked configuration
MaxJobs == 3         \* jobs submitted to the pool under test

Names == {"bilibili", "zhihu", "gitee", "custom"}     \* service names
WorkerIds == 1..MaxWorkers
JobIds == 1..MaxJobs
NoJob == 0
NoWorker == 0

\* error values a job Function can return (nil is "nil")
Errors == {"nil", "err"}
\* Job.Result: nil, an unbuffered channel, or a channel of capacity 1
ResultKinds == {"nilchan", "unbuf", "buf1"}

VARIABLES
  pools,      \* Optimizer.pools: the names that have a (started) WorkerPool
  jobQueue,   \* WorkerPool.jobQueue, per pool: sequence of job ids
  workers,    \* WorkerPool.workers, per pool: the registered job channels
  quit,       \* WorkerPool.quit, per pool: TRUE once closed
  dispatch,   \* the dispatch goroutine of each pool: [pc, job, jobChannel]
  worker,     \* the worker goroutines of each pool: [pc, job, err]
  jobs,       \* every Job value: its Result channel and its history
  limConfig,  \* TokenBucketLimiter.config after NewRateLimiter's defaults
  buckets,    \* TokenBucketLimiter.buckets: name -> tokenBucket or NoBucket
  now,        \* time.Now(), in ticks
  allowLog,   \* per name: the Allow calls since the bucket was last filled
  callers,    \* the goroutines inside ServiceManager.RequestWithFallback
  metrics,    \* Monitor.metrics
  fallbacks,  \* config.APISources[name].Fallbacks, per name
  cache,      \* the MemoryCache: [data, currentSize, maxSize]
  getters,    \* the goroutines inside MemoryCache.Get
  cacheLog,   \* history of the cache calls (not program state)
  limiterSync,   \* TokenBucketLimiter.mu and the history of bucket creation
  allowers,      \* the goroutines inside Allow, taken statement by statement
  optimizerSync, \* Optimizer.mu and the history of pool creation
  poolers,       \* the goroutines inside GetOrCreatePool, by statement
  mon,           \* Monitor.metrics: its mutex, scalar fields and maps
  recorders,     \* the goroutines inside the Record calls and collect
  readers        \* the goroutines that call GetMetrics, and their snapshots

poolVars == <<pools, jobQueue, workers, quit, dispatch, worker>>
limVars == <<limConfig, buckets, now, allowLog>>
mgrVars == <<callers, metrics, fallbacks>>
cacheVars == <<cache, getters, cacheLog>>
lazyVars == <<limiterSync, allowers, optimizerSync, poolers>>
monVars == <<mon, recorders, readers>>
vars == <<pools, jobQueue, workers, quit, dispatch, worker, jobs,
          limConfig, buckets, now, allowLog, callers, metrics, fallbacks,
          cache, getters, cacheLog, limiterSync, allowers, optimizerSync,
          poolers, mon, recorders, readers>>

\* ------------------------------------------------------------- job values
\* st: "new" (not yet submitted), "accepted" (Submit returned nil),
\*     "rejected" (Submit returned ErrQueueFull)
\* result: the kind of Job.Result; chan: the values buffered in it
\* execs: how many times Function was invoked; rets: what it returned
\* written: the values sent on Result
NewJob ==
  [st |-> "new", result |-> "nilchan", chan |-> <<>>, execs |-> 0,
   rets |-> <<>>, written |-> <<>>]

\* A Go map as a function on its key set
EmptyMap == [k \in {} |-> 0]
MapPut(m, k, v) == [x \in (DOMAIN m) \cup {k} |-> IF x = k THEN v ELSE m[x]]
MapGet(m, k, zero) == IF k \in DOMAIN m THEN m[k] ELSE zero

ResultCap(kind) == IF kind = "buf1" THEN 1 ELSE 0

\* ------------------------------------------------------------ worker pool
IdleDispatch == [pc |-> "recv", job |-> NoJob, jobChannel |-> NoWorker]
\* mutant: the registration is outside the loop, a worker that finished a
\* job waits for the next one without registering again
LoopTopNoRegister == "select"

\* the top of the worker's for loop: it registers its job channel
LoopTop == "register"
IdleWorker == [pc |-> LoopTop, job |-> NoJob, err |-> "nil"]
\* a worker goroutine as Start launches it
StartedWorker == [pc |-> "register", job |-> NoJob, err |-> "nil"]

\* NewWorkerPool followed by Start: empty channels, maxWorkers worker
\* goroutines about to register, one dispatch goroutine about to select.
StartedPool(p) ==
  /\ jobQueue' = [jobQueue EXCEPT ![p] = <<>>]
  /\ workers' = [workers EXCEPT ![p] = <<>>]
  /\ quit' = [quit EXCEPT ![p] = FALSE]
  /\ dispatch' = [dispatch EXCEPT ![p] = IdleDispatch]
  /\ worker' = [worker EXCEPT ![p] = [w \in WorkerIds |-> StartedWorker]]

\* WorkerPool.Stop: close(wp.quit). A second close would panic; the pool is
\* stopped by its owner once.
Stop(p) ==
  /\ p \in pools
  /\ ~quit[p]
  /\ quit' = [quit EXCEPT ![p] = TRUE]
  /\ UNCHANGED <<pools, jobQueue, workers, dispatch, worker, jobs>>
  /\ UNCHANGED <<limVars, mgrVars, cacheVars, lazyVars, monVars>>

\* mutant: one job more than the queue's capacity is taken
SubmitAcceptsOneMore(p) == Len(jobQueue[p]) <= QueueSize

\* The select of Submit takes the send case iff the buffered queue has room.
SubmitAccepts(p) == Len(jobQueue[p]) < QueueSize

\* WorkerPool.Submit(job): the new value of jobQueue and of the job.
SubmitQueue(p, j) ==
  IF SubmitAccepts(p) THEN Append(jobQueue[p], j) ELSE jobQueue[p]

\* mutant: the default case of the select returns nil too
SubmitStatusAlwaysNil(p) == "accepted"

SubmitStatus(p) == IF SubmitAccepts(p) THEN "accepted" ELSE "rejected"

\* A client of the pool submits a fresh job (ids are used in order).
Submit(p, j, kind) ==
  /\ p \in pools
  /\ jobs[j].st = "new"
  /\ \A k \in JobIds : k < j => jobs[k].st # "new"
  /\ jobQueue' = [jobQueue EXCEPT ![p] = SubmitQueue(p, j)]
  /\ jobs' = [jobs EXCEPT ![j].st = SubmitStatus(p), ![j].result = kind]
  /\ UNCHANGED <<pools, workers, quit, dispatch, worker>>
  /\ UNCHANGED <<limVars, mgrVars, cacheVars, lazyVars, monVars>>

\* dispatch, outer select, case job := <-wp.jobQueue
DispatchRecv(p) ==
  /\ p \in pools
  /\ dispatch[p].pc = "recv"
  /\ jobQueue[p] # <<>>
  /\ dispatch' = [dispatch EXCEPT ![p] =
                    [pc |-> "getWorker", job |-> Head(jobQueue[p]),
                     jobChannel |-> NoWorker]]
  /\ jobQueue' = [jobQueue EXCEPT ![p] = Tail(jobQueue[p])]
  /\ UNCHANGED <<pools, workers, quit, worker, jobs>>
  /\ UNCHANGED <<limVars, mgrVars, cacheVars, lazyVars, monVars>>

\* dispatch, inner select, case jobChannel := <-wp.workers
DispatchGetWorker(p) ==
  /\ p \in pools
  /\ dispatch[p].pc = "getWorker"
  /\ workers[p] # <<>>
  /\ dispatch' = [dispatch EXCEPT ![p].pc = "send",
                                  ![p].jobChannel = Head(workers[p])]
  /\ workers' = [workers EXCEPT ![p] = Tail(workers[p])]
  /\ UNCHANGED <<pools, jobQueue, quit, worker, jobs>>
  /\ UNCHANGED <<limVars, mgrVars, cacheVars, lazyVars, monVars>>

\* The positions of dispatch at which a case <-wp.quit is part of the select.
DispatchSeesQuit(pc) == pc \in {"recv", "getWorker"}

\* dispatch, case <-wp.quit (outer or inner select): return. A job taken from
\* the queue and not yet handed over is dropped.
DispatchQuit(p) ==
  /\ p \in pools
  /\ DispatchSeesQuit(dispatch[p].pc)
  /\ quit[p]
  /\ dispatch' = [dispatch EXCEPT ![p].pc = "exit"]
  /\ UNCHANGED <<pools, jobQueue, workers, quit, worker, jobs>>
  /\ UNCHANGED <<limVars, mgrVars, cacheVars, lazyVars, monVars>>

\* worker, w.workerPool <- w.jobChannel (send on a channel of capacity
\* maxWorkers)
WorkerRegister(p, w) ==
  /\ p \in pools
  /\ worker[p][w].pc = "register"
  /\ Len(workers[p]) < MaxWorkers
  /\ workers' = [workers EXCEPT ![p] = Append(workers[p], w)]
  /\ worker' = [worker EXCEPT ![p][w].pc = "select"]
  /\ UNCHANGED <<pools, jobQueue, quit, dispatch, jobs>>
  /\ UNCHANGED <<limVars, mgrVars, cacheVars, lazyVars, monVars>>

\* mutant: the worker starts job.Function in a goroutine of its own and goes
\* back to the top of its loop
AfterReceiveDetached == "register"

\* The worker's position after it received a job: it calls job.Function.
AfterReceive == "run"

\* dispatch's jobChannel <- job meets the worker's case job := <-w.jobChannel
\* (unbuffered channel: one joint step); the worker invokes job.Function.
Handoff(p, w) ==
  /\ p \in pools
  /\ dispatch[p].pc = "send"
  /\ dispatch[p].jobChannel = w
  /\ worker[p][w].pc = "select"
  /\ worker' = [worker EXCEPT ![p][w] =
                  [pc |-> AfterReceive, job |-> dispatch[p].job, err |-> "nil"]]
  /\ jobs' = [jobs EXCEPT ![dispatch[p].job].execs = @ + 1]
  /\ dispatch' = [dispatch EXCEPT ![p] = IdleDispatch]
  /\ UNCHANGED <<pools, jobQueue, workers, quit>>
  /\ UNCHANGED <<limVars, mgrVars, cacheVars, lazyVars, monVars>>

\* worker, case <-w.quit: return
WorkerQuit(p, w) ==
  /\ p \in pools
  /\ worker[p][w].pc = "select"
  /\ quit[p]
  /\ worker' = [worker EXCEPT ![p][w].pc = "exit"]
  /\ UNCHANGED <<pools, jobQueue, workers, quit, dispatch, jobs>>
  /\ UNCHANGED <<limVars, mgrVars, cacheVars, lazyVars, monVars>>

\* Where the worker goes once Function returned: to the send on job.Result
\* when Result is not nil, else back to the top of its loop.
AfterFunction(kind) == IF kind = "nilchan" THEN LoopTop ELSE "result"

\* job.Function(job.Context) returns err
FunctionReturns(p, w, e) ==
  /\ p \in pools
  /\ worker[p][w].pc = "run"
  /\ LET j == worker[p][w].job IN
       /\ jobs' = [jobs EXCEPT ![j].rets = Append(@, e)]
       /\ worker' = [worker EXCEPT
            ![p][w].pc = AfterFunction(jobs[j].result),
            ![p][w].err = e,
            ![p][w].job = IF jobs[j].result = "nilchan" THEN NoJob ELSE j]
  /\ UNCHANGED <<pools, jobQueue, workers, quit, dispatch>>
  /\ UNCHANGED <<limVars, mgrVars, cacheVars, lazyVars, monVars>>

\* mutant: nil is sent whatever Function returned
ResultValueNil(p, w) == "nil"

\* The value the worker sends on job.Result.
ResultValue(p, w) == worker[p][w].err

\* worker, job.Result <- err on a buffered channel with room
WorkerSendResult(p, w) ==
  /\ p \in pools
  /\ worker[p][w].pc = "result"
  /\ LET j == worker[p][w].job IN
       /\ Len(jobs[j].chan) < ResultCap(jobs[j].result)
       /\ jobs' = [jobs EXCEPT ![j].chan = Append(@, ResultValue(p, w)),
                               ![j].written = Append(@, ResultValue(p, w))]
  /\ worker' = [worker EXCEPT ![p][w] = IdleWorker]
  /\ UNCHANGED <<pools, jobQueue, workers, quit, dispatch>>
  /\ UNCHANGED <<limVars, mgrVars, cacheVars, lazyVars, monVars>>

\* worker, job.Result <- err meeting a reader of an unbuffered channel
WorkerHandResult(p, w) ==
  /\ p \in pools
  /\ worker[p][w].pc = "result"
  /\ LET j == worker[p][w].job IN
       /\ jobs[j].result = "unbuf"
       /\ jobs' = [jobs EXCEPT ![j].written = Append(@, ResultValue(p, w))]
  /\ worker' = [worker EXCEPT ![p][w] = IdleWorker]
  /\ UNCHANGED <<pools, jobQueue, workers, quit, dispatch>>
  /\ UNCHANGED <<limVars, mgrVars, cacheVars, lazyVars, monVars>>

\* the submitter reads a buffered value from job.Result
ReadResult(j) ==
  /\ jobs[j].chan # <<>>
  /\ jobs' = [jobs EXCEPT ![j].chan = Tail(@)]
  /\ UNCHANGED <<poolVars, limVars, mgrVars, cacheVars, lazyVars, monVars>>

\* ----------------------------------------------------------- rate limiter
MaxLimit == 2        \* largest configured per-minute limit
MaxTime == 5         \* the clock runs from 0 to MaxTime ticks
TicksPerMinute == 2  \* clock ticks in one minute
MaxAllowCalls == 4   \* Allow calls counted per service between two fills
DefaultLimitFallback == 60

Min(a, b) == IF a < b THEN a ELSE b

\* NewRateLimiter: a zero DefaultLimit becomes 60
NewRateLimiter(config) ==
  IF config.DefaultLimit = 0
    THEN [config EXCEPT !.DefaultLimit = DefaultLimitFallback]
    ELSE config

\* Allow, bucket creation: the service's own limit, else the default
LimitFor(service) ==
  IF service \in DOMAIN limConfig.Services
    THEN limConfig.Services[service]
    ELSE limConfig.DefaultLimit

NewBucket(service) ==
  [tokens |-> LimitFor(service), capacity |-> LimitFor(service),
   refillRate |-> LimitFor(service), lastRefill |-> now]

\* the bucket Allow consumes from: the stored one, else a freshly created one
BucketFor(service) ==
  IF service \in DOMAIN buckets THEN buckets[service] ELSE NewBucket(service)

\* mutant: the elapsed time is not rounded down to whole minutes
TokensToAddPerTick(b, t) == (t - b.lastRefill) * b.refillRate

\* consume: tokensToAdd := int(elapsed.Minutes()) * b.refillRate
TokensToAdd(b, t) == ((t - b.lastRefill) \div TicksPerMinute) * b.refillRate

\* mutant: the refill is not capped at the capacity
RefilledUncapped(b, t) ==
  IF TokensToAdd(b, t) > 0
    THEN [b EXCEPT !.tokens = b.tokens + TokensToAdd(b, t), !.lastRefill = t]
    ELSE b

\* consume: the refill step
Refilled(b, t) ==
  IF TokensToAdd(b, t) > 0
    THEN [b EXCEPT !.tokens = Min(b.capacity, b.tokens + TokensToAdd(b, t)),
                   !.lastRefill = t]
    ELSE b

\* mutant: the test is b.tokens >= 0
HasTokenOrNone(b) == b.tokens >= 0

\* consume: if b.tokens > 0
HasToken(b) == b.tokens > 0

\* consume: the bucket it leaves and the value it returns
Consumed(b, t) ==
  IF HasToken(Refilled(b, t))
    THEN [Refilled(b, t) EXCEPT !.tokens = @ - 1]
    ELSE Refilled(b, t)

ConsumeResult(b, t) == HasToken(Refilled(b, t))

\* TokenBucketLimiter.Allow(service): its return value
AllowResult(service) == ConsumeResult(BucketFor(service), now)

NoCalls == [calls |-> 0, admitted |-> 0, refilled |-> FALSE]

\* the Allow calls on a service since its bucket was last filled (created,
\* refilled or reset), the filling call included; refilled: that fill was the
\* refill step of consume
AllowLogged(service) ==
  LET fresh == \/ service \notin DOMAIN buckets
               \/ TokensToAdd(BucketFor(service), now) > 0
      old == IF fresh THEN NoCalls ELSE allowLog[service]
  IN [calls |-> old.calls + 1,
      admitted |-> old.admitted + IF AllowResult(service) THEN 1 ELSE 0,
      refilled |-> IF fresh THEN service \in DOMAIN buckets ELSE old.refilled]

\* TokenBucketLimiter.Allow(service): its effect on the limiter
AllowEffect(service) ==
  /\ buckets' = MapPut(buckets, service, Consumed(BucketFor(service), now))
  /\ allowLog' = [allowLog EXCEPT ![service] = AllowLogged(service)]
  /\ UNCHANGED <<limConfig, now>>

Allow(service) ==
  /\ allowLog[service].calls < MaxAllowCalls
  /\ AllowEffect(service)
  /\ UNCHANGED <<poolVars, jobs, mgrVars, cacheVars, lazyVars, monVars>>

\* mutant: Reset restarts the refill period and leaves the tokens
ResetBucketKeepsTokens(b, t) == [b EXCEPT !.lastRefill = t]

\* Reset: the bucket it leaves
ResetBucket(b, t) == [b EXCEPT !.tokens = b.capacity, !.lastRefill = t]

\* TokenBucketLimiter.Reset(service)
Reset(service) ==
  /\ buckets' = IF service \in DOMAIN buckets
                  THEN [buckets EXCEPT ![service] = ResetBucket(@, now)]
                  ELSE buckets
  /\ allowLog' = IF service \in DOMAIN buckets
                   THEN [allowLog EXCEPT ![service] = NoCalls]
                   ELSE allowLog
  /\ UNCHANGED <<limConfig, now>>
  /\ UNCHANGED <<poolVars, jobs, mgrVars, cacheVars, lazyVars, monVars>>

\* time passes
Tick ==
  /\ now < MaxTime
  /\ now' = now + 1
  /\ UNCHANGED <<limConfig, buckets, allowLog>>
  /\ UNCHANGED <<poolVars, jobs, mgrVars, cacheVars, lazyVars, monVars>>

\* ------------------------------------------------------- metrics monitor
\* NewMonitor: the API maps of Monitor.metrics, all empty
NewMonitor ==
  [APIRequests |-> EmptyMap, APIErrors |-> EmptyMap,
   APIResponseTimes |-> EmptyMap]

\* mutant: the three keys are set to zero on every call
WithKeysAlways(m, service) ==
  [APIRequests |-> MapPut(m.APIRequests, service, 0),
   APIErrors |-> MapPut(m.APIErrors, service, 0),
   APIResponseTimes |-> MapPut(m.APIResponseTimes, service, 0)]

\* RecordAPIRequest, first block: a service not yet counted gets its keys
WithKeys(m, service) ==
  IF MapGet(m.APIRequests, service, 0) = 0
    THEN [APIRequests |-> MapPut(m.APIRequests, service, 0),
          APIErrors |-> MapPut(m.APIErrors, service, 0),
          APIResponseTimes |-> MapPut(m.APIResponseTimes, service, 0)]
    ELSE m

\* Monitor.RecordAPIRequest(service, duration, isError)
RecordAPIRequest(m, service, duration, isError) ==
  LET k == WithKeys(m, service)
      n == k.APIRequests[service] + 1
  IN [APIRequests |-> MapPut(k.APIRequests, service, n),
      APIErrors |-> MapPut(k.APIErrors, service,
                           MapGet(k.APIErrors, service, 0)
                             + IF isError THEN 1 ELSE 0),
      APIResponseTimes |->
        MapPut(k.APIResponseTimes, service,
               IF n = 1 THEN duration
               ELSE (MapGet(k.APIResponseTimes, service, 0) + duration) \div 2)]

\* ------------------------------------------------------- service manager
MaxCallers == 2      \* invocations of RequestWithFallback

CallerIds == 1..MaxCallers

\* initializeClients: the names that have a client (each has an APISources
\* entry); "custom" has none
Registered == {"bilibili", "zhihu", "gitee"}

\* APISourceConfig.Fallbacks of the checked configuration
Fallbacks ==
  [s \in Names |->
     CASE s = "bilibili" -> <<"zhihu", "custom", "gitee">>
       [] s = "zhihu" -> <<"bilibili">>
       [] OTHER -> <<>>]

\* a configuration in which no service declares fallbacks
NoFallbacks == [s \in Names |-> <<>>]

\* a configuration in which the only declared fallback has no client
UnregisteredFallbacks ==
  [s \in Names |-> IF s = "bilibili" THEN <<"custom">> ELSE <<>>]

\* the checked fallback configurations
FallbackConfigs == {Fallbacks, NoFallbacks, UnregisteredFallbacks}

\* the names RequestWithFallback is called with
PrimaryNames == {"bilibili", "custom"}

\* what APIClient.Request returns: a response with status < 400, a response
\* with status >= 400 (both with a nil error), or an error and no response
Outcomes == {"ok", "http_error", "fail"}

NoResp == [from |-> "none", status |-> "none"]
RespOf(service, o) ==
  IF o = "fail" THEN NoResp ELSE [from |-> service, status |-> o]

\* the job Function of RequestWithFallback: nil when reqErr == nil and the
\* status is below 400, else reqErr
FunctionError(o) == IF o = "fail" THEN "err" ELSE "nil"

\* pc: "idle", "getpool", "submit", "wait", "rerequest", "fallback",
\*     "fbcall", "done"
\* err: the function's variable err, read by the deferred RecordAPIRequest
\* ret: the returned (response, error); calls: the clients this invocation
\* called on its own goroutine, in order; fb: position in the fallback chain
IdleCaller ==
  [pc |-> "idle", service |-> "none", ctxDone |-> FALSE, start |-> 0,
   err |-> "nil", ret |-> [resp |-> NoResp, err |-> "nil"],
   calls |-> <<>>, fb |-> 0]

\* mutant: GetClient never fails
ClientExistsAlways(service) == TRUE

\* GetClient: does the name have a client
ClientExists(service) == service \in Registered

\* mutant: the metric is recorded on the error returns only
ReturnRecordsErrorsOnly(c, rec, resp, e) ==
  /\ callers' = [callers EXCEPT ![c] =
                   [rec EXCEPT !.pc = "done", !.ret = [resp |-> resp, err |-> e]]]
  /\ metrics' = IF rec.err # "nil"
                  THEN RecordAPIRequest(metrics, rec.service, now - rec.start, TRUE)
                  ELSE metrics

\* a return of RequestWithFallback: the deferred RecordAPIRequest runs with
\* the function's err variable as it stands
Return(c, rec, resp, e) ==
  /\ callers' = [callers EXCEPT ![c] =
                   [rec EXCEPT !.pc = "done", !.ret = [resp |-> resp, err |-> e]]]
  /\ metrics' = RecordAPIRequest(metrics, rec.service, now - rec.start,
                                 rec.err # "nil")

\* RequestWithFallback entered, GetClient fails: return nil, err
CallNotFound(c, s) ==
  /\ callers[c].pc = "idle"
  /\ ~ClientExists(s)
  /\ Return(c, [callers[c] EXCEPT !.service = s, !.start = now,
                                  !.err = "notfound"],
            NoResp, "notfound")
  /\ UNCHANGED <<poolVars, jobs, limVars>>
  /\ UNCHANGED <<fallbacks, cacheVars, lazyVars, monVars>>

\* mutant: the limiter's verdict is ignored
DeniedNever(s) == FALSE

\* the limiter's verdict as RequestWithFallback reads it
Denied(s) == ~AllowResult(s)

\* RequestWithFallback entered, the client exists, Allow returns false
CallRateLimited(c, s) ==
  /\ callers[c].pc = "idle"
  /\ ClientExists(s)
  /\ Denied(s)
  /\ AllowEffect(s)
  /\ Return(c, [callers[c] EXCEPT !.service = s, !.start = now,
                                  !.err = "ratelimited"],
            NoResp, "ratelimited")
  /\ UNCHANGED <<poolVars, jobs>>
  /\ UNCHANGED <<fallbacks, cacheVars, lazyVars, monVars>>

\* RequestWithFallback entered, the client exists, Allow returns true
CallAdmitted(c, s) ==
  /\ callers[c].pc = "idle"
  /\ ClientExists(s)
  /\ ~Denied(s)
  /\ AllowEffect(s)
  /\ callers' = [callers EXCEPT ![c].pc = "getpool", ![c].service = s,
                                ![c].start = now]
  /\ UNCHANGED <<poolVars, jobs, metrics>>
  /\ UNCHANGED <<fallbacks, cacheVars, lazyVars, monVars>>

\* Optimizer.GetOrCreatePool(serviceName): a missing pool is created, started
\* and stored, under the registry's lock
GetPool(c) ==
  /\ callers[c].pc = "getpool"
  /\ LET p == callers[c].service IN
       IF p \in pools
         THEN UNCHANGED poolVars
         ELSE /\ pools' = pools \cup {p}
              /\ StartedPool(p)
  /\ callers' = [callers EXCEPT ![c].pc = "submit"]
  /\ UNCHANGED <<jobs, limVars, metrics>>
  /\ UNCHANGED <<fallbacks, cacheVars, lazyVars, monVars>>

\* mutant: the result channel has no buffer
ResultChannelUnbuffered == "unbuf"

\* resultCh := make(chan error, 1)
ResultChannel == "buf1"

\* pool.Submit(job) accepts: the caller goes on to wait. The job's Result is
\* make(chan error, 1).
SubmitAccepted(c) ==
  /\ callers[c].pc = "submit"
  /\ SubmitAccepts(callers[c].service)
  /\ jobQueue' = [jobQueue EXCEPT
                    ![callers[c].service] = SubmitQueue(callers[c].service, c)]
  /\ jobs' = [jobs EXCEPT ![c].st = SubmitStatus(callers[c].service),
                          ![c].result = ResultChannel]
  /\ callers' = [callers EXCEPT ![c].pc = "wait"]
  /\ UNCHANGED <<pools, workers, quit, dispatch, worker, limVars, metrics>>
  /\ UNCHANGED <<fallbacks, cacheVars, lazyVars, monVars>>

\* mutant: the error of Submit is dropped and the caller waits for a result
QueueFullIgnored(c) ==
  /\ callers' = [callers EXCEPT ![c].pc = "wait"]
  /\ UNCHANGED metrics

\* if err := pool.Submit(job); err != nil { return nil, err }
QueueFullReturn(c) == Return(c, callers[c], NoResp, "queuefull")

\* pool.Submit(job) returns ErrQueueFull: return nil, err (the err of the if
\* statement; the function's err variable stays nil)
SubmitRejected(c) ==
  /\ callers[c].pc = "submit"
  /\ ~SubmitAccepts(callers[c].service)
  /\ jobs' = [jobs EXCEPT ![c].st = SubmitStatus(callers[c].service),
                          ![c].result = ResultChannel]
  /\ QueueFullReturn(c)
  /\ UNCHANGED <<poolVars, limVars>>
  /\ UNCHANGED <<fallbacks, cacheVars, lazyVars, monVars>>

\* mutant: the caller returns after the job's request without another one
ReRequestedNever(calls, service) == calls

\* resp, _ := client.Request(ctx, req) on the caller's goroutine
ReRequested(calls, service) == Append(calls, service)

\* select, case err = <-resultCh with err == nil: the request is made again
WaitSuccess(c) ==
  /\ callers[c].pc = "wait"
  /\ jobs[c].chan # <<>>
  /\ Head(jobs[c].chan) = "nil"
  /\ jobs' = [jobs EXCEPT ![c].chan = Tail(@)]
  /\ callers' = [callers EXCEPT ![c].pc = "rerequest", ![c].err = "nil",
                                ![c].calls =
                                   ReRequested(@, callers[c].service)]
  /\ UNCHANGED <<poolVars, limVars, metrics>>
  /\ UNCHANGED <<fallbacks, cacheVars, lazyVars, monVars>>

\* select, case err = <-resultCh with err != nil: on to the fallbacks
WaitFailure(c) ==
  /\ callers[c].pc = "wait"
  /\ jobs[c].chan # <<>>
  /\ Head(jobs[c].chan) # "nil"
  /\ jobs' = [jobs EXCEPT ![c].chan = Tail(@)]
  /\ callers' = [callers EXCEPT ![c].pc = "fallback", ![c].fb = 1,
                                ![c].err = Head(jobs[c].chan)]
  /\ UNCHANGED <<poolVars, limVars, metrics>>
  /\ UNCHANGED <<fallbacks, cacheVars, lazyVars, monVars>>

\* mutant: the select has no ctx.Done() case
CtxDoneReadyNever(c) == FALSE

\* is the select's case <-ctx.Done() ready
CtxDoneReady(c) == callers[c].ctxDone

\* select, case <-ctx.Done(): err = ctx.Err(); return nil, err
WaitCancelled(c) ==
  /\ callers[c].pc = "wait"
  /\ CtxDoneReady(c)
  /\ Return(c, [callers[c] EXCEPT !.err = "ctx"], NoResp, "ctx")
  /\ UNCHANGED <<poolVars, jobs, limVars>>
  /\ UNCHANGED <<fallbacks, cacheVars, lazyVars, monVars>>

\* resp, _ := client.Request(ctx, req); return resp, nil
ReRequestReturns(c, o) ==
  /\ callers[c].pc = "rerequest"
  /\ Return(c, callers[c], RespOf(callers[c].service, o), "nil")
  /\ UNCHANGED <<poolVars, jobs, limVars>>
  /\ UNCHANGED <<fallbacks, cacheVars, lazyVars, monVars>>

\* mutant: the chains of the fallback services are walked as well
ChainOfNested(service) ==
  LET own == fallbacks[service]
      Nested[i \in 0..Len(own)] ==
        IF i = 0 THEN <<>> ELSE Nested[i - 1] \o fallbacks[own[i]]
  IN own \o Nested[Len(own)]

\* the chain RequestWithFallback walks for a primary service
ChainOf(service) == fallbacks[service]

\* mutant: the loop gives up after the first entry
ChainDoneAfterFirst(c) == callers[c].fb > 1

\* has the range loop passed the last entry of the chain
ChainDone(c) == callers[c].fb > Len(ChainOf(callers[c].service))

\* mutant: the fallback passes through the rate limiter
FallbackAdmissionLimited(service) == AllowEffect(service)

\* what a fallback attempt does to the rate limiter: nothing, Allow is not
\* called for the fallback name
FallbackAdmission(service) == UNCHANGED limVars

\* the fallback loop is over: return nil, all services failed
FallbackExhausted(c) ==
  /\ callers[c].pc = "fallback"
  /\ ChainDone(c)
  /\ Return(c, callers[c], NoResp, "allfailed")
  /\ UNCHANGED <<poolVars, jobs, limVars>>
  /\ UNCHANGED <<fallbacks, cacheVars, lazyVars, monVars>>

\* the fallback loop, GetClient(fallback) fails: next entry
FallbackSkip(c) ==
  /\ callers[c].pc = "fallback"
  /\ ~ChainDone(c)
  /\ callers[c].fb <= Len(ChainOf(callers[c].service))
  /\ ~ClientExists(ChainOf(callers[c].service)[callers[c].fb])
  /\ callers' = [callers EXCEPT ![c].fb = @ + 1]
  /\ UNCHANGED <<poolVars, jobs, limVars, metrics>>
  /\ UNCHANGED <<fallbacks, cacheVars, lazyVars, monVars>>

\* the fallback loop, fallbackClient.Request(ctx, req) is called
FallbackCall(c) ==
  /\ callers[c].pc = "fallback"
  /\ ~ChainDone(c)
  /\ callers[c].fb <= Len(ChainOf(callers[c].service))
  /\ ClientExists(ChainOf(callers[c].service)[callers[c].fb])
  /\ callers' = [callers EXCEPT
       ![c].pc = "fbcall",
       ![c].calls = Append(@, ChainOf(callers[c].service)[callers[c].fb])]
  /\ FallbackAdmission(ChainOf(callers[c].service)[callers[c].fb])
  /\ UNCHANGED <<poolVars, jobs, metrics>>
  /\ UNCHANGED <<fallbacks, cacheVars, lazyVars, monVars>>

\* the fallback's request returns: with a nil error its response is returned,
\* else the loop goes on
FallbackReturns(c, o) ==
  /\ callers[c].pc = "fbcall"
  /\ IF o # "fail"
       THEN Return(c, callers[c],
                   RespOf(ChainOf(callers[c].service)[callers[c].fb], o), "nil")
       ELSE /\ callers' = [callers EXCEPT ![c].pc = "fallback", ![c].fb = @ + 1]
            /\ UNCHANGED metrics
  /\ UNCHANGED <<poolVars, jobs, limVars>>
  /\ UNCHANGED <<fallbacks, cacheVars, lazyVars, monVars>>

\* the caller's context ends (cancelled or past its deadline)
CancelCtx(c) ==
  /\ callers[c].pc # "done"
  /\ ~callers[c].ctxDone
  /\ callers' = [callers EXCEPT ![c].ctxDone = TRUE]
  /\ UNCHANGED <<poolVars, jobs, limVars, metrics>>
  /\ UNCHANGED <<fallbacks, cacheVars, lazyVars, monVars>>

\* ------------------------------------------------------------ memory cache
MaxTtl == 2          \* the ttl arguments of Set are 0..MaxTtl ticks
MaxSets == 2         \* calls of Set where keys may repeat
CacheMaxSize == 2    \* CacheConfig.MaxSize is 0 (no limit) .. CacheMaxSize

\* the goroutines that call Get: one call is in flight at a time, next to
\* the calls of Set, Delete, Clear and the cleanup goroutine
GetterIds == {"reader"}
CacheKeys == {"", "a", "b", "c", "d"}
TTLs == 0..MaxTtl

\* the values handed to Set: numbers, strings (sequences of characters) and
\* a value encoding/json cannot encode (a channel)
Num(n) == [t |-> "num", n |-> n, s |-> <<>>]
Str(s) == [t |-> "str", n |-> 0, s |-> s]
Unsupported == [t |-> "chan", n |-> 0, s |-> <<>>]
NoValue == [t |-> "none", n |-> 0, s |-> <<>>]
CacheValues == {Num(7), Num(12), Str(<<"a">>), Unsupported}

DigitChars == <<"0", "1", "2", "3", "4", "5", "6", "7", "8", "9">>

RECURSIVE Digits(_)
Digits(n) ==
  IF n < 10 THEN <<DigitChars[n + 1]>>
  ELSE Digits(n \div 10) \o <<DigitChars[(n % 10) + 1]>>

DigitValue(ch) == CHOOSE d \in 0..9 : DigitChars[d + 1] = ch

RECURSIVE Number(_)
Number(b) ==
  IF Len(b) = 1 THEN DigitValue(b[1])
  ELSE Number(SubSeq(b, 1, Len(b) - 1)) * 10 + DigitValue(b[Len(b)])

\* mutant: the closing quote of a string is not written
MarshalUnterminated(v) ==
  CASE v.t = "num" -> [err |-> FALSE, data |-> Digits(v.n)]
    [] v.t = "str" -> [err |-> FALSE, data |-> <<"\"">> \o v.s]
    [] OTHER -> [err |-> TRUE, data |-> <<>>]

\* json.Marshal(value): the bytes of the JSON text, or an error
Marshal(v) ==
  CASE v.t = "num" -> [err |-> FALSE, data |-> Digits(v.n)]
    [] v.t = "str" -> [err |-> FALSE, data |-> <<"\"">> \o v.s \o <<"\"">>]
    [] OTHER -> [err |-> TRUE, data |-> <<>>]

\* json.Unmarshal(data, dest) for a dest of the stored value's type
Unmarshal(b) ==
  IF b[1] = "\"" THEN Str(SubSeq(b, 2, Len(b) - 1)) ELSE Num(Number(b))

\* NewMemoryCache(config): an empty store with the configured size limit
NewMemoryCache(config) ==
  [data |-> EmptyMap, currentSize |-> 0, maxSize |-> config.MaxSize]

NoItem == [value |-> <<>>, expiredAt |-> 0]
NoStored == [v |-> NoValue, expiry |-> 0]
NoResult == [err |-> "none", value |-> NoValue]

\* pc: "idle", "check" (the item was read, the lock is released), "done"
\* item: the *cacheItem read under the lock, until Get returns
\* res: the returned error and what was written to dest
\* want: the value and the end of the ttl of the Set call that stored the
\*       item (history)
IdleGetter ==
  [pc |-> "idle", key |-> "", item |-> NoItem, want |-> NoStored,
   res |-> NoResult]

\* sets: the Set calls so far; used: the keys they were called with
\* stored: per stored key, the value and the end of the ttl of the Set call
\*         that stored it
NoCacheLog == [sets |-> 0, used |-> {}, stored |-> EmptyMap]

MapRemove(m, keys) == [x \in (DOMAIN m) \ keys |-> m[x]]

\* the history follows the store: entries that left the store are forgotten
Forget(log, data) ==
  [log EXCEPT !.stored = MapRemove(@, (DOMAIN @) \ (DOMAIN data))]

\* the body of Delete under the lock, as a function of the cache
Deleted(c, key) ==
  IF key \in DOMAIN c.data
    THEN [c EXCEPT !.data = MapRemove(@, {key}),
                   !.currentSize = @ - Len(c.data[key].value)]
    ELSE c

\* the orders in which a range loop may visit the keys of a map
RECURSIVE Orders(_)
Orders(S) ==
  IF S = {} THEN {<<>>}
  ELSE UNION {{<<x>> \o o : o \in Orders(S \ {x})} : x \in S}

\* the loop of evictLRU over the keys in the given order: oldestKey after
\* the first i keys ("" also stands for "none yet")
OldestKey(data, order) ==
  LET Scan[i \in 0..Len(order)] ==
        IF i = 0 THEN [key |-> "", time |-> 0]
        ELSE IF Scan[i - 1].key = ""
                  \/ data[order[i]].expiredAt < Scan[i - 1].time
               THEN [key |-> order[i], time |-> data[order[i]].expiredAt]
               ELSE Scan[i - 1]
  IN Scan[Len(order)].key

\* evictLRU: the caches it may leave, one per iteration order of the map
EvictLRU(c) ==
  {IF OldestKey(c.data, o) # "" THEN Deleted(c, OldestKey(c.data, o)) ELSE c :
     o \in Orders(DOMAIN c.data)}

\* Set, the size check: the caches the insertion may start from
AfterEviction(c, size) ==
  IF c.maxSize > 0 /\ c.currentSize + size > c.maxSize
    THEN EvictLRU(c) ELSE {c}

\* Set: expiredAt = time.Now().Add(ttl)
Expiry(ttl) == now + ttl

\* MemoryCache.Set(ctx, key, value, ttl)
Set(key, value, ttl) ==
  /\ LET m == Marshal(value) IN
       IF m.err
         THEN /\ UNCHANGED cache
              /\ cacheLog' = [cacheLog EXCEPT !.sets = @ + 1, !.used = @ \cup {key}]
         ELSE \E e \in AfterEviction(cache, Len(m.data)) :
                /\ cache' = [e EXCEPT
                     !.data = MapPut(@, key, [value |-> m.data,
                                              expiredAt |-> Expiry(ttl)]),
                     !.currentSize = @ + Len(m.data)]
                /\ cacheLog' =
                     [sets |-> cacheLog.sets + 1,
                      used |-> cacheLog.used \cup {key},
                      stored |-> MapPut(Forget(cacheLog, e.data).stored, key,
                                        [v |-> value, expiry |-> now + ttl])]
  /\ UNCHANGED <<getters, poolVars, jobs, limVars, mgrVars, lazyVars, monVars>>

\* MemoryCache.Delete(ctx, key)
Delete(key) ==
  /\ cache' = Deleted(cache, key)
  /\ cacheLog' = Forget(cacheLog, cache'.data)
  /\ UNCHANGED <<getters, poolVars, jobs, limVars, mgrVars, lazyVars, monVars>>

\* MemoryCache.Clear(ctx)
Clear ==
  /\ cache' = [cache EXCEPT !.data = EmptyMap, !.currentSize = 0]
  /\ cacheLog' = Forget(cacheLog, EmptyMap)
  /\ UNCHANGED <<getters, poolVars, jobs, limVars, mgrVars, lazyVars, monVars>>

\* time.Now().After(item.expiredAt)
Expired(item, t) == t > item.expiredAt

\* one tick of cleanup's ticker: every expired entry is deleted
Cleanup ==
  /\ LET gone == {k \in DOMAIN cache.data : Expired(cache.data[k], now)}
         Sum[S \in SUBSET gone] ==
           IF S = {} THEN 0
           ELSE LET k == CHOOSE x \in S : TRUE
                IN Len(cache.data[k].value) + Sum[S \ {k}]
     IN cache' = [cache EXCEPT !.data = MapRemove(@, gone),
                               !.currentSize = @ - Sum[gone]]
  /\ cacheLog' = Forget(cacheLog, cache'.data)
  /\ UNCHANGED <<getters, poolVars, jobs, limVars, mgrVars, lazyVars, monVars>>

\* MemoryCache.Get, first part: the item is read under the read lock; an
\* absent key returns the cache-miss error
Get(g, key) ==
  /\ getters[g].pc \in {"idle", "done"}
  /\ getters' = [getters EXCEPT ![g] =
       IF key \in DOMAIN cache.data
         THEN [pc |-> "check", key |-> key, item |-> cache.data[key],
               want |-> cacheLog.stored[key], res |-> NoResult]
         ELSE [pc |-> "done", key |-> key, item |-> NoItem, want |-> NoStored,
               res |-> [err |-> "cache miss", value |-> NoValue]]]
  /\ UNCHANGED <<cache, cacheLog, poolVars, jobs, limVars, mgrVars, lazyVars, monVars>>

\* mutant: the expiry is not looked at
GetResultUnchecked(item, t) ==
  [err |-> "nil", value |-> Unmarshal(item.value)]

\* what Get returns for the item it read, at time t
GetResult(item, t) ==
  IF Expired(item, t)
    THEN [err |-> "cache expired", value |-> NoValue]
    ELSE [err |-> "nil", value |-> Unmarshal(item.value)]

\* MemoryCache.Get, second part: the expiry check on the item read before;
\* an expired item makes Get call Delete(key), which takes the lock anew
GetCheck(g) ==
  /\ getters[g].pc = "check"
  /\ getters' = [getters EXCEPT ![g].pc = "done", ![g].item = NoItem,
                                ![g].want = NoStored,
                                ![g].res = GetResult(getters[g].item, now)]
  /\ cache' = IF GetResult(getters[g].item, now).err = "nil"
                THEN cache ELSE Deleted(cache, getters[g].key)
  /\ cacheLog' = Forget(cacheLog, cache'.data)
  /\ UNCHANGED <<poolVars, jobs, limVars, mgrVars, lazyVars, monVars>>

\* ------------------------------------- lazy creation, statement by statement
MaxAllowers == 3     \* concurrent calls of Allow taken statement by statement
MaxPoolers == 3      \* concurrent calls of GetOrCreatePool

AllowerIds == 1..MaxAllowers
PoolerIds == 1..MaxPoolers

\* A sync.RWMutex whose read sections are single steps: it is free or held
\* by the goroutine that called Lock.
Unlocked == 0

\* mu: TokenBucketLimiter.mu; made: how many tokenBucket values were built
\* for a name; cur: which of them (the first, the second, ...) the map holds
NoLimiterSync ==
  [mu |-> Unlocked, made |-> [s \in Names |-> 0], cur |-> [s \in Names |-> 0]]

\* pc: "idle", "lock" (the lookup missed), "create" (inside Lock),
\*     "consume" (bucket in hand), "done"
\* bucket: which tokenBucket of its service the goroutine holds; ret: the
\* value Allow returned
IdleAllower == [pc |-> "idle", service |-> "none", bucket |-> 0, ret |-> FALSE]

\* Allow: RLock, bucket, exists := t.buckets[service], RUnlock
AllowLookup(a, service) ==
  /\ allowers[a].pc = "idle"
  /\ limiterSync.mu = Unlocked
  /\ allowers' = [allowers EXCEPT ![a] =
       [pc |-> IF service \in DOMAIN buckets THEN "consume" ELSE "lock",
        service |-> service, bucket |-> limiterSync.cur[service],
        ret |-> FALSE]]
  /\ UNCHANGED <<limiterSync, optimizerSync, poolers>>
  /\ UNCHANGED <<poolVars, jobs, limVars, mgrVars, cacheVars, monVars>>

\* Allow, the lookup missed: t.mu.Lock()
AllowLock(a) ==
  /\ allowers[a].pc = "lock"
  /\ limiterSync.mu = Unlocked
  /\ limiterSync' = [limiterSync EXCEPT !.mu = a]
  /\ allowers' = [allowers EXCEPT ![a].pc = "create"]
  /\ UNCHANGED <<optimizerSync, poolers>>
  /\ UNCHANGED <<poolVars, jobs, limVars, mgrVars, cacheVars, monVars>>

\* mutant: the bucket is built without looking at the map again
BucketRecheckedNever(service) == FALSE

\* Allow inside Lock: if bucket, exists = t.buckets[service]; !exists
BucketRechecked(service) == service \in DOMAIN buckets

\* Allow inside Lock: the second lookup, the construction of the bucket if
\* the name still has none, and Unlock
AllowCreate(a) ==
  /\ allowers[a].pc = "create"
  /\ limiterSync.mu = a
  /\ LET service == allowers[a].service IN
       IF BucketRechecked(service)
         THEN /\ allowers' = [allowers EXCEPT
                   ![a].pc = "consume", ![a].bucket = limiterSync.cur[service]]
              /\ limiterSync' = [limiterSync EXCEPT !.mu = Unlocked]
              /\ UNCHANGED buckets
         ELSE /\ buckets' = MapPut(buckets, service, NewBucket(service))
              /\ limiterSync' = [limiterSync EXCEPT
                   !.mu = Unlocked,
                   !.made[service] = @ + 1,
                   !.cur[service] = limiterSync.made[service] + 1]
              /\ allowers' = [allowers EXCEPT
                   ![a].pc = "consume",
                   ![a].bucket = limiterSync.made[service] + 1]
  /\ UNCHANGED <<limConfig, now, allowLog, optimizerSync, poolers>>
  /\ UNCHANGED <<poolVars, jobs, mgrVars, cacheVars, monVars>>

\* Allow: return bucket.consume(), under the bucket's own mutex
AllowConsume(a) ==
  /\ allowers[a].pc = "consume"
  /\ LET service == allowers[a].service IN
       /\ buckets' = [buckets EXCEPT ![service] = Consumed(@, now)]
       /\ allowers' = [allowers EXCEPT
            ![a].pc = "done", ![a].ret = ConsumeResult(buckets[service], now)]
  /\ UNCHANGED <<limConfig, now, allowLog, limiterSync, optimizerSync, poolers>>
  /\ UNCHANGED <<poolVars, jobs, mgrVars, cacheVars, monVars>>

\* mu: Optimizer.mu; made: how many WorkerPool values NewWorkerPool built for
\* a name; started: how many of them had Start called; cur: which of them
\* the map holds
NoOptimizerSync ==
  [mu |-> Unlocked, made |-> [s \in Names |-> 0],
   started |-> [s \in Names |-> 0], cur |-> [s \in Names |-> 0]]

\* pc: "idle", "lock" (the lookup missed), "recheck" (inside Lock), "start"
\*     (pool built), "store" (pool started), "done"
\* pool: which WorkerPool of the name the goroutine holds or was returned
\* running: whether the returned pool had been started when it was returned
IdlePooler == [pc |-> "idle", name |-> "none", pool |-> 0, running |-> FALSE]

\* GetOrCreatePool: RLock, pool, exists := o.pools[name], RUnlock; an
\* existing pool is returned
PoolLookup(a, name) ==
  /\ poolers[a].pc = "idle"
  /\ optimizerSync.mu = Unlocked
  /\ poolers' = [poolers EXCEPT ![a] =
       IF name \in pools
         THEN [pc |-> "done", name |-> name, pool |-> optimizerSync.cur[name],
               running |-> optimizerSync.started[name] >= optimizerSync.cur[name]]
         ELSE [pc |-> "lock", name |-> name, pool |-> 0, running |-> FALSE]]
  /\ UNCHANGED <<optimizerSync, limiterSync, allowers>>
  /\ UNCHANGED <<poolVars, jobs, limVars, mgrVars, cacheVars, monVars>>

\* GetOrCreatePool, the lookup missed: o.mu.Lock()
PoolLock(a) ==
  /\ poolers[a].pc = "lock"
  /\ optimizerSync.mu = Unlocked
  /\ optimizerSync' = [optimizerSync EXCEPT !.mu = a]
  /\ poolers' = [poolers EXCEPT ![a].pc = "recheck"]
  /\ UNCHANGED <<limiterSync, allowers>>
  /\ UNCHANGED <<poolVars, jobs, limVars, mgrVars, cacheVars, monVars>>

\* mutant: the pool is built without looking at the map again
PoolRecheckedNever(name) == FALSE

\* GetOrCreatePool inside Lock: if pool, exists := o.pools[name]; exists
PoolRechecked(name) == name \in pools

\* GetOrCreatePool inside Lock: the second lookup returns the pool another
\* goroutine stored meanwhile (the deferred Unlock runs), else NewWorkerPool
PoolRecheck(a) ==
  /\ poolers[a].pc = "recheck"
  /\ optimizerSync.mu = a
  /\ LET name == poolers[a].name IN
       IF PoolRechecked(name)
         THEN /\ poolers' = [poolers EXCEPT
                   ![a].pc = "done", ![a].pool = optimizerSync.cur[name],
                   ![a].running =
                      optimizerSync.started[name] >= optimizerSync.cur[name]]
              /\ optimizerSync' = [optimizerSync EXCEPT !.mu = Unlocked]
         ELSE /\ poolers' = [poolers EXCEPT
                   ![a].pc = "start", ![a].pool = optimizerSync.made[name] + 1]
              /\ optimizerSync' = [optimizerSync EXCEPT !.made[name] = @ + 1]
  /\ UNCHANGED <<limiterSync, allowers>>
  /\ UNCHANGED <<poolVars, jobs, limVars, mgrVars, cacheVars, monVars>>

\* GetOrCreatePool inside Lock: pool.Start()
PoolStart(a) ==
  /\ poolers[a].pc = "start"
  /\ optimizerSync.mu = a
  /\ StartedPool(poolers[a].name)
  /\ optimizerSync' = [optimizerSync EXCEPT !.started[poolers[a].name] = @ + 1]
  /\ poolers' = [poolers EXCEPT ![a].pc = "store"]
  /\ UNCHANGED <<pools, jobs, limiterSync, allowers>>
  /\ UNCHANGED <<limVars, mgrVars, cacheVars, monVars>>

\* GetOrCreatePool inside Lock: o.pools[name] = pool; return pool (the
\* deferred Unlock runs)
PoolStore(a) ==
  /\ poolers[a].pc = "store"
  /\ optimizerSync.mu = a
  /\ pools' = pools \cup {poolers[a].name}
  /\ optimizerSync' = [optimizerSync EXCEPT
       !.mu = Unlocked, !.cur[poolers[a].name] = poolers[a].pool]
  /\ poolers' = [poolers EXCEPT
       ![a].pc = "done",
       ![a].running = optimizerSync.started[poolers[a].name] >= poolers[a].pool]
  /\ UNCHANGED <<jobQueue, workers, quit, dispatch, worker, jobs>>
  /\ UNCHANGED <<limiterSync, allowers>>
  /\ UNCHANGED <<limVars, mgrVars, cacheVars, monVars>>

IdleLazy ==
  /\ limiterSync = NoLimiterSync
  /\ allowers = [a \in AllowerIds |-> IdleAllower]
  /\ optimizerSync = NoOptimizerSync
  /\ poolers = [a \in PoolerIds |-> IdlePooler]

\* ------------------------------------------------- monitor, by statement
MaxRecords == 2      \* record calls that run to completion
MaxMonTime == 1      \* the clock of the collection loop runs from 0 to this

RecorderIds == {"handler", "manager"}   \* goroutines that call Record...
ReaderIds == {"dashboard"}              \* goroutines that call GetMetrics
MonServices == {"bilibili"}
WidgetTypes == {"bilibili"}
Durations == {1, 4}
Intruder == "intruder"   \* the key a reader writes into its snapshot

\* the map-typed fields of Metrics; a Metrics value holds a reference in
\* them: the owner of the map, the monitor or the reader that made it
MapFields ==
  {"APIRequests", "APIErrors", "APIResponseTimes", "WidgetLoadTimes",
   "WidgetErrors"}
MonitorOwner == "monitor"
NoWriter == "none"     \* Metrics.mu is not held for writing
NeverUpdated == -1   \* the zero time.Time, before every time.Now()

\* NewMonitor: &Metrics{...} with the five maps made and the rest zero; the
\* value with the maps in place of the references
NewMetrics ==
  [HTTPRequests |-> 0, HTTPErrors |-> 0, HTTPResponseTime |-> 0,
   APIRequests |-> EmptyMap, APIErrors |-> EmptyMap,
   APIResponseTimes |-> EmptyMap,
   CacheHits |-> 0, CacheMisses |-> 0, CacheSize |-> 0,
   MemoryUsage |-> 0, GoroutineCount |-> 0, GCPauseTime |-> 0,
   WidgetLoadTimes |-> EmptyMap, WidgetErrors |-> EmptyMap,
   LastUpdated |-> NeverUpdated]

NoMaps == [f \in MapFields |-> EmptyMap]

\* a Metrics struct whose maps are those of owner o
Referring(v, o) ==
  [f \in DOMAIN v |-> IF f \in MapFields THEN o ELSE v[f]]

\* the maps of a Metrics value
MapsOf(v) == [f \in MapFields |-> v[f]]

\* a Metrics struct with the maps its references point to
Deref(x) ==
  [f \in DOMAIN x |-> IF f \in MapFields THEN mon.heap[x[f]][f] ELSE x[f]]

\* mu: the goroutine holding Metrics.mu for writing; m: Monitor.metrics;
\* heap: the maps, by owner; records: the record calls completed;
\* serial: the value the completed calls give when applied one after another;
\* loaded: the widget types a RecordWidgetLoad without error completed for
MaxStarts == 3       \* calls of Monitor.Start, each with a context of its own

StartIds == 1..MaxStarts

\* NewMonitor: running is false and stopCh a fresh channel, made once.
\* running, stopCh: the fields of Monitor; panicked: a close of the closed
\* stopCh has brought the program down; starts: per call of Start its
\* position ("idle", "loop" or "returned") and whether its ctx is cancelled
NewLife ==
  [running |-> FALSE, stopCh |-> "open", panicked |-> FALSE,
   starts |-> [i \in StartIds |-> [pc |-> "idle", ctxDone |-> FALSE]]]

IdleMon ==
  [mu |-> NoWriter, m |-> Referring(NewMetrics, MonitorOwner),
   heap |-> [o \in {MonitorOwner} \cup ReaderIds |-> NoMaps],
   records |-> 0, serial |-> NewMetrics, loaded |-> {}, life |-> NewLife]

\* pc: "idle" or "second" (Lock held, the first statement done)
IdleRecorder ==
  [pc |-> "idle", op |-> "none", name |-> "none", duration |-> 0,
   isError |-> FALSE]

\* pc: "idle", "taken" (GetMetrics returned), "changed" (the reader wrote
\* into a map of the snapshot it holds); snap: the struct the last call
\* returned; own: the value of that snapshot as the reader left it; serial:
\* mon.serial when it was taken
IdleReader ==
  [pc |-> "idle", snap |-> Referring(NewMetrics, MonitorOwner),
   own |-> NewMetrics, serial |-> NewMetrics]

\* RecordHTTPRequest: m.metrics.HTTPRequests++
HTTPFirst(v) == [v EXCEPT !.HTTPRequests = @ + 1]

\* RecordHTTPRequest: the error count and the average
HTTPSecond(v, duration, isError) ==
  [v EXCEPT !.HTTPErrors = IF isError THEN @ + 1 ELSE @,
            !.HTTPResponseTime = IF v.HTTPRequests = 1 THEN duration
                                 ELSE (@ + duration) \div 2]

\* Monitor.RecordHTTPRequest(duration, isError) as a whole
RecordHTTPRequest(v, duration, isError) ==
  LET n == v.HTTPRequests + 1
  IN [v EXCEPT !.HTTPRequests = n,
               !.HTTPErrors = @ + IF isError THEN 1 ELSE 0,
               !.HTTPResponseTime =
                  IF n = 1 THEN duration ELSE (@ + duration) \div 2]

\* RecordAPIRequest: if APIRequests[service] == 0 { APIRequests[service] = 0
APIFirst(v, service) ==
  IF MapGet(v.APIRequests, service, 0) = 0
    THEN [v EXCEPT !.APIRequests = MapPut(@, service, 0)]
    ELSE v

\* RecordAPIRequest: the rest of the if block, the counts and the average
APISecond(v, service, duration, isError) ==
  LET k == IF v.APIRequests[service] = 0
             THEN [v EXCEPT !.APIErrors = MapPut(@, service, 0),
                            !.APIResponseTimes = MapPut(@, service, 0)]
             ELSE v
      n == k.APIRequests[service] + 1
  IN [k EXCEPT !.APIRequests[service] = n,
               !.APIErrors[service] = IF isError THEN @ + 1 ELSE @,
               !.APIResponseTimes[service] =
                  IF n = 1 THEN duration ELSE (@ + duration) \div 2]

\* Monitor.RecordAPIRequest as a whole, on a full Metrics value
RecordAPIRequestIn(v, service, duration, isError) ==
  LET r == RecordAPIRequest(
             [APIRequests |-> v.APIRequests, APIErrors |-> v.APIErrors,
              APIResponseTimes |-> v.APIResponseTimes],
             service, duration, isError)
  IN [v EXCEPT !.APIRequests = r.APIRequests, !.APIErrors = r.APIErrors,
               !.APIResponseTimes = r.APIResponseTimes]

\* RecordWidgetLoad: if WidgetLoadTimes[w] == 0 { WidgetLoadTimes[w] = 0
WidgetFirst(v, w) ==
  IF MapGet(v.WidgetLoadTimes, w, 0) = 0
    THEN [v EXCEPT !.WidgetLoadTimes = MapPut(@, w, 0)]
    ELSE v

\* RecordWidgetLoad: count := APIRequests[w] - WidgetErrors[w]
WidgetCount(v, w) == MapGet(v.APIRequests, w, 0) - v.WidgetErrors[w]

\* RecordWidgetLoad: the rest of the if block, then the error count or the
\* average
WidgetSecond(v, w, duration, isError) ==
  LET k == IF v.WidgetLoadTimes[w] = 0
             THEN [v EXCEPT !.WidgetErrors = MapPut(@, w, 0)]
             ELSE v
  IN IF isError
       THEN [k EXCEPT !.WidgetErrors[w] = @ + 1]
       ELSE IF WidgetCount(k, w) = 1
              THEN [k EXCEPT !.WidgetLoadTimes[w] = duration]
            ELSE IF WidgetCount(k, w) > 1
              THEN [k EXCEPT !.WidgetLoadTimes[w] = (@ + duration) \div 2]
            ELSE k

\* Monitor.RecordWidgetLoad(widgetType, duration, isError) as a whole
RecordWidgetLoad(v, w, duration, isError) ==
  LET fresh == MapGet(v.WidgetLoadTimes, w, 0) = 0
      times == IF fresh THEN MapPut(v.WidgetLoadTimes, w, 0)
               ELSE v.WidgetLoadTimes
      errors == IF fresh THEN MapPut(v.WidgetErrors, w, 0) ELSE v.WidgetErrors
      count == MapGet(v.APIRequests, w, 0) - errors[w]
  IN IF isError
       THEN [v EXCEPT !.WidgetLoadTimes = times,
                      !.WidgetErrors = MapPut(errors, w, errors[w] + 1)]
       ELSE [v EXCEPT
               !.WidgetErrors = errors,
               !.WidgetLoadTimes =
                  IF count = 1 THEN MapPut(times, w, duration)
                  ELSE IF count > 1
                    THEN MapPut(times, w, (times[w] + duration) \div 2)
                  ELSE times]

\* the monitor after a writer stored v: the scalars in the struct, the maps
\* in the monitor's own maps
Stored(v, holder) ==
  [mon EXCEPT !.mu = holder,
              !.m = Referring(v, MonitorOwner),
              !.heap[MonitorOwner] = MapsOf(v)]

\* what a completed record call leaves: Unlock, and the history
Completed(v, whole, ok) ==
  [Stored(v, NoWriter) EXCEPT !.records = @ + 1, !.serial = whole,
                              !.loaded = @ \cup ok]

\* a record call takes Metrics.mu.Lock() and runs up to its first write
RecordBegins(w, op, name, duration, isError, v) ==
  /\ recorders[w].pc = "idle"
  /\ mon.mu = NoWriter
  /\ mon.records < MaxRecords
  /\ mon' = Stored(v, w)
  /\ recorders' = [recorders EXCEPT ![w] =
       [pc |-> "second", op |-> op, name |-> name, duration |-> duration,
        isError |-> isError]]
  /\ UNCHANGED <<readers, poolVars, jobs, limVars, mgrVars, cacheVars, lazyVars>>

\* a record call runs to its end and the deferred Unlock
RecordEnds(w, op, v, whole, ok) ==
  /\ recorders[w].pc = "second"
  /\ recorders[w].op = op
  /\ mon.mu = w
  /\ mon' = Completed(v, whole, ok)
  /\ recorders' = [recorders EXCEPT ![w] = IdleRecorder]
  /\ UNCHANGED <<readers, poolVars, jobs, limVars, mgrVars, cacheVars, lazyVars>>

RecordHTTPRequestBegin(w, duration, isError) ==
  RecordBegins(w, "http", "none", duration, isError, HTTPFirst(Deref(mon.m)))

RecordHTTPRequestEnd(w) ==
  LET c == recorders[w] IN
    RecordEnds(w, "http", HTTPSecond(Deref(mon.m), c.duration, c.isError),
               RecordHTTPRequest(mon.serial, c.duration, c.isError), {})

RecordAPIRequestBegin(w, service, duration, isError) ==
  RecordBegins(w, "api", service, duration, isError,
               APIFirst(Deref(mon.m), service))

RecordAPIRequestEnd(w) ==
  LET c == recorders[w] IN
    RecordEnds(w, "api",
               APISecond(Deref(mon.m), c.name, c.duration, c.isError),
               RecordAPIRequestIn(mon.serial, c.name, c.duration, c.isError),
               {})

RecordWidgetLoadBegin(w, widget, duration, isError) ==
  RecordBegins(w, "widget", widget, duration, isError,
               WidgetFirst(Deref(mon.m), widget))

RecordWidgetLoadEnd(w) ==
  LET c == recorders[w] IN
    RecordEnds(w, "widget",
               WidgetSecond(Deref(mon.m), c.name, c.duration, c.isError),
               RecordWidgetLoad(mon.serial, c.name, c.duration, c.isError),
               IF c.isError THEN {} ELSE {c.name})

\* Monitor.collect: the collectors change nothing; Lock, LastUpdated =
\* time.Now(), Unlock
Collect ==
  /\ mon.mu = NoWriter
  /\ mon' = [mon EXCEPT !.m.LastUpdated = now, !.serial.LastUpdated = now]
  /\ UNCHANGED <<recorders, readers>>
  /\ UNCHANGED <<poolVars, jobs, limVars, mgrVars, cacheVars, lazyVars>>

\* mutant: GetMetrics reads without RLock
ReadLockFreeAlways == TRUE

\* GetMetrics: m.metrics.mu.RLock() returns while no writer holds the mutex
ReadLockFree == mon.mu = NoWriter

\* mutant: the snapshot holds the monitor's maps
SnapshotMapsShared(r) == MonitorOwner

\* GetMetrics: APIRequests: make(map[string]int64), ... the snapshot's maps
\* are new ones, its own
SnapshotMaps(r) == r

\* Monitor.GetMetrics: the scalars are copied into a new struct, every entry
\* of the five maps into five new maps
GetMetrics(r) ==
  /\ ReadLockFree
  /\ mon' = [mon EXCEPT !.heap[r] = mon.heap[MonitorOwner]]
  /\ readers' = [readers EXCEPT ![r] =
       [pc |-> "taken", snap |-> Referring(mon.m, SnapshotMaps(r)),
        own |-> Deref(mon.m), serial |-> mon.serial]]
  /\ UNCHANGED recorders
  /\ UNCHANGED <<poolVars, jobs, limVars, mgrVars, cacheVars, lazyVars>>

\* the holder of a snapshot writes into one of its maps:
\* snapshot.APIRequests["intruder"] = 1
ChangeSnapshot(r) ==
  /\ readers[r].pc = "taken"
  /\ mon' = [mon EXCEPT
       !.heap[readers[r].snap.APIRequests].APIRequests = MapPut(@, Intruder, 1)]
  /\ readers' = [readers EXCEPT
       ![r].pc = "changed", ![r].own.APIRequests = MapPut(@, Intruder, 1)]
  /\ UNCHANGED recorders
  /\ UNCHANGED <<poolVars, jobs, limVars, mgrVars, cacheVars, lazyVars>>

\* the clock of the collection loop
MonTick ==
  /\ now < MaxMonTime
  /\ now' = now + 1
  /\ UNCHANGED <<limConfig, buckets, allowLog>>
  /\ UNCHANGED <<poolVars, jobs, mgrVars, cacheVars, lazyVars, monVars>>

\* Monitor.Start(ctx, interval) up to its loop: it returns at once when
\* running is set, else sets it
MonitorStart(i) ==
  /\ ~mon.life.panicked
  /\ mon.life.starts[i].pc = "idle"
  /\ \A k \in StartIds : k < i => mon.life.starts[k].pc # "idle"
  /\ mon' = [mon EXCEPT
       !.life.starts[i].pc = IF mon.life.running THEN "returned" ELSE "loop",
       !.life.running = TRUE]
  /\ UNCHANGED <<recorders, readers>>
  /\ UNCHANGED <<poolVars, jobs, limVars, mgrVars, cacheVars, lazyVars>>

\* the caller of Start cancels the context it passed
CancelContext(i) ==
  /\ ~mon.life.panicked
  /\ ~mon.life.starts[i].ctxDone
  /\ mon' = [mon EXCEPT !.life.starts[i].ctxDone = TRUE]
  /\ UNCHANGED <<recorders, readers>>
  /\ UNCHANGED <<poolVars, jobs, limVars, mgrVars, cacheVars, lazyVars>>

\* Start's select, case <-ctx.Done(): return (running stays set)
LoopContextDone(i) ==
  /\ ~mon.life.panicked
  /\ mon.life.starts[i].pc = "loop"
  /\ mon.life.starts[i].ctxDone
  /\ mon' = [mon EXCEPT !.life.starts[i].pc = "returned"]
  /\ UNCHANGED <<recorders, readers>>
  /\ UNCHANGED <<poolVars, jobs, limVars, mgrVars, cacheVars, lazyVars>>

\* Start's select, case <-m.stopCh: return; a closed channel is always ready
LoopStopped(i) ==
  /\ ~mon.life.panicked
  /\ mon.life.starts[i].pc = "loop"
  /\ mon.life.stopCh = "closed"
  /\ mon' = [mon EXCEPT !.life.starts[i].pc = "returned"]
  /\ UNCHANGED <<recorders, readers>>
  /\ UNCHANGED <<poolVars, jobs, limVars, mgrVars, cacheVars, lazyVars>>

\* Start's select, case <-ticker.C: m.collect(ctx)
LoopCollect(i) ==
  /\ ~mon.life.panicked
  /\ mon.life.starts[i].pc = "loop"
  /\ Collect

\* Monitor.Stop: close(m.stopCh) when running is set; closing a closed
\* channel panics
MonitorStop ==
  /\ ~mon.life.panicked
  /\ mon.life.running
  /\ mon' = [mon EXCEPT
       !.life.panicked = (mon.life.stopCh = "closed"),
       !.life.stopCh = "closed",
       !.life.running = (mon.life.stopCh = "closed")]
  /\ UNCHANGED <<recorders, readers>>
  /\ UNCHANGED <<poolVars, jobs, limVars, mgrVars, cacheVars, lazyVars>>

\* Monitor.Stop while running is not set: nothing happens
MonitorStopIdle ==
  /\ ~mon.life.panicked
  /\ ~mon.life.running
  /\ UNCHANGED vars

IdleMonitor ==
  /\ mon = IdleMon
  /\ recorders = [w \in RecorderIds |-> IdleRecorder]
  /\ readers = [r \in ReaderIds |-> IdleReader]

\* --------------------------------------------- specification: one pool
PoolName == "bilibili"

\* the components a specification leaves alone
NoPools ==
  /\ pools = {}
  /\ jobQueue = [p \in Names |-> <<>>]
  /\ workers = [p \in Names |-> <<>>]
  /\ quit = [p \in Names |-> FALSE]
  /\ dispatch = [p \in Names |-> IdleDispatch]
  /\ worker = [p \in Names |-> [w \in WorkerIds |-> StartedWorker]]
  /\ jobs = [j \in JobIds |-> NewJob]

IdleLimiter ==
  /\ limConfig = NewRateLimiter([DefaultLimit |-> 0, Services |-> EmptyMap])
  /\ buckets = EmptyMap
  /\ now = 0
  /\ allowLog = [s \in Names |-> NoCalls]

IdleManager ==
  /\ callers = [c \in CallerIds |-> IdleCaller]
  /\ metrics = NewMonitor
  /\ fallbacks = Fallbacks

IdleCache ==
  /\ cache = NewMemoryCache([MaxSize |-> 0])
  /\ getters = [g \in GetterIds |-> IdleGetter]
  /\ cacheLog = NoCacheLog

InitPool ==
  /\ pools = {PoolName}
  /\ jobQueue = [p \in Names |-> <<>>]
  /\ workers = [p \in Names |-> <<>>]
  /\ quit = [p \in Names |-> FALSE]
  /\ dispatch = [p \in Names |-> IdleDispatch]
  /\ worker = [p \in Names |-> [w \in WorkerIds |-> StartedWorker]]
  /\ jobs = [j \in JobIds |-> NewJob]
  /\ IdleLimiter
  /\ IdleManager
  /\ IdleCache
  /\ IdleLazy
  /\ IdleMonitor

PoolSteps ==
  \/ DispatchRecv(PoolName)
  \/ DispatchGetWorker(PoolName)
  \/ DispatchQuit(PoolName)
  \/ \E w \in WorkerIds : WorkerRegister(PoolName, w)
  \/ \E w \in WorkerIds : Handoff(PoolName, w)
  \/ \E w \in WorkerIds : WorkerQuit(PoolName, w)
  \/ \E w \in WorkerIds : WorkerSendResult(PoolName, w)
  \/ \E w \in WorkerIds : WorkerHandResult(PoolName, w)

NextPool ==
  \/ \E j \in JobIds, kind \in ResultKinds : Submit(PoolName, j, kind)
  \/ Stop(PoolName)
  \/ PoolSteps
  \/ \E w \in WorkerIds, e \in Errors : FunctionReturns(PoolName, w, e)
  \/ \E j \in JobIds : ReadResult(j)

SpecPool == InitPool /\ [][NextPool]_vars

\* ------------------------------------------ specification: the limiter
LimiterNames == {"bilibili", "zhihu"}

\* the configurations: a default limit (0 stands for "not set") and either
\* no per-service limit or one for bilibili, which may be zero or negative
LimiterConfigs ==
  {[DefaultLimit |-> d, Services |-> sv] :
     d \in 0..MaxLimit,
     sv \in {EmptyMap} \cup {[n \in {"bilibili"} |-> l] : l \in (-1)..MaxLimit}}

InitLimiter ==
  /\ NoPools
  /\ IdleManager
  /\ IdleCache
  /\ IdleLazy
  /\ IdleMonitor
  /\ limConfig \in {NewRateLimiter(c) : c \in LimiterConfigs}
  /\ buckets = EmptyMap
  /\ now = 0
  /\ allowLog = [s \in Names |-> NoCalls]

NextLimiter ==
  \/ \E s \in LimiterNames : Allow(s)
  \/ \E s \in LimiterNames : Reset(s)
  \/ Tick

SpecLimiter == InitLimiter /\ [][NextLimiter]_vars

\* ------------------------------------------ specification: the manager
\* bilibili has a configured limit, of one request or of MaxLimit requests
\* a minute, the other services the default one
ManagerConfigs ==
  {[DefaultLimit |-> 0, Services |-> [n \in {"bilibili"} |-> l]] :
     l \in {1, MaxLimit}}

InitManager ==
  /\ NoPools
  /\ IdleCache
  /\ IdleLazy
  /\ IdleMonitor
  /\ callers = [c \in CallerIds |-> IdleCaller]
  /\ metrics = NewMonitor
  /\ fallbacks \in FallbackConfigs
  /\ limConfig \in {NewRateLimiter(c) : c \in ManagerConfigs}
  /\ buckets = EmptyMap
  /\ now = 0
  /\ allowLog = [s \in Names |-> NoCalls]

ManagerPoolSteps(p) ==
  \/ DispatchRecv(p)
  \/ DispatchGetWorker(p)
  \/ \E w \in WorkerIds : WorkerRegister(p, w)
  \/ \E w \in WorkerIds : Handoff(p, w)
  \/ \E w \in WorkerIds, o \in Outcomes : FunctionReturns(p, w, FunctionError(o))
  \/ \E w \in WorkerIds : WorkerSendResult(p, w)

\* The end of a caller's context is read by the select of the wait only, so
\* the contexts end while their callers wait: an earlier end is the end at
\* the moment the wait begins, a later one changes nothing.
NextManager ==
  \/ \E c \in CallerIds, s \in PrimaryNames : CallNotFound(c, s)
  \/ \E c \in CallerIds, s \in PrimaryNames : CallRateLimited(c, s)
  \/ \E c \in CallerIds, s \in PrimaryNames : CallAdmitted(c, s)
  \/ \E c \in CallerIds : GetPool(c)
  \/ \E c \in CallerIds : SubmitAccepted(c)
  \/ \E c \in CallerIds : SubmitRejected(c)
  \/ \E c \in CallerIds : WaitSuccess(c)
  \/ \E c \in CallerIds : WaitFailure(c)
  \/ \E c \in CallerIds : WaitCancelled(c)
  \/ \E c \in CallerIds, o \in Outcomes : ReRequestReturns(c, o)
  \/ \E c \in CallerIds : FallbackExhausted(c)
  \/ \E c \in CallerIds : FallbackSkip(c)
  \/ \E c \in CallerIds : FallbackCall(c)
  \/ \E c \in CallerIds, o \in Outcomes : FallbackReturns(c, o)
  \/ \E c \in CallerIds : callers[c].pc = "wait" /\ CancelCtx(c)
  \/ \E p \in Names : ManagerPoolSteps(p)

SpecManager == InitManager /\ [][NextManager]_vars

\* -------------------------------------------- specification: the cache
\* the keys of the calls where keys may repeat
RepeatedKeys == {"", "a"}

InitCache ==
  /\ NoPools
  /\ IdleLimiter
  /\ IdleManager
  /\ IdleLazy
  /\ IdleMonitor
  /\ cache \in {NewMemoryCache([MaxSize |-> m]) : m \in {0, CacheMaxSize}}
  /\ getters = [g \in GetterIds |-> IdleGetter]
  /\ cacheLog = NoCacheLog

NextCache ==
  \/ \E k \in RepeatedKeys, v \in CacheValues, ttl \in TTLs :
       cacheLog.sets < MaxSets /\ Set(k, v, ttl)
  \/ \E g \in GetterIds, k \in RepeatedKeys : Get(g, k)
  \/ \E g \in GetterIds : GetCheck(g)
  \/ \E k \in RepeatedKeys : Delete(k)
  \/ Clear
  \/ Cleanup
  \/ now <= MaxTtl /\ Tick

SpecCache == InitCache /\ [][NextCache]_vars

\* ------------------------- specification: the cache, Set on distinct keys
\* Set is called with keys it was not called with before; the keys are the
\* non-empty ones, which evictLRU can always tell from "no key yet"
FreshKeys == CacheKeys \ {""}

InitCacheFill ==
  /\ NoPools
  /\ IdleLimiter
  /\ IdleManager
  /\ IdleLazy
  /\ IdleMonitor
  /\ cache \in {NewMemoryCache([MaxSize |-> m]) : m \in 1..CacheMaxSize}
  /\ getters = [g \in GetterIds |-> IdleGetter]
  /\ cacheLog = NoCacheLog

NextCacheFill ==
  \E k \in FreshKeys \ cacheLog.used, v \in CacheValues, ttl \in TTLs :
    Set(k, v, ttl)

SpecCacheFill == InitCacheFill /\ [][NextCacheFill]_vars

\* ----------------------- specification: concurrent first use of a bucket
InitLazyBucket ==
  /\ NoPools
  /\ IdleManager
  /\ IdleCache
  /\ IdleLazy
  /\ IdleMonitor
  /\ limConfig \in {NewRateLimiter(c) : c \in LimiterConfigs}
  /\ buckets = EmptyMap
  /\ now = 0
  /\ allowLog = [s \in Names |-> NoCalls]

NextLazyBucket ==
  \/ \E a \in AllowerIds, s \in LimiterNames : AllowLookup(a, s)
  \/ \E a \in AllowerIds : AllowLock(a)
  \/ \E a \in AllowerIds : AllowCreate(a)
  \/ \E a \in AllowerIds : AllowConsume(a)

SpecLazyBucket == InitLazyBucket /\ [][NextLazyBucket]_vars

\* ------------------------- specification: concurrent first use of a pool
InitLazyPool ==
  /\ NoPools
  /\ IdleLimiter
  /\ IdleManager
  /\ IdleCache
  /\ IdleLazy
  /\ IdleMonitor

NextLazyPool ==
  \/ \E a \in PoolerIds, n \in LimiterNames : PoolLookup(a, n)
  \/ \E a \in PoolerIds : PoolLock(a)
  \/ \E a \in PoolerIds : PoolRecheck(a)
  \/ \E a \in PoolerIds : PoolStart(a)
  \/ \E a \in PoolerIds : PoolStore(a)

SpecLazyPool == InitLazyPool /\ [][NextLazyPool]_vars

\* ------------------------- specification: the monitor under concurrent use
InitMonitor ==
  /\ NoPools
  /\ IdleLimiter
  /\ IdleManager
  /\ IdleCache
  /\ IdleLazy
  /\ IdleMonitor

NextMonitor ==
  \/ \E w \in RecorderIds, d \in Durations, e \in BOOLEAN :
       RecordHTTPRequestBegin(w, d, e)
  \/ \E w \in RecorderIds : RecordHTTPRequestEnd(w)
  \/ \E w \in RecorderIds, s \in MonServices, d \in Durations, e \in BOOLEAN :
       RecordAPIRequestBegin(w, s, d, e)
  \/ \E w \in RecorderIds : RecordAPIRequestEnd(w)
  \/ \E w \in RecorderIds, t \in WidgetTypes, d \in Durations, e \in BOOLEAN :
       RecordWidgetLoadBegin(w, t, d, e)
  \/ \E w \in RecorderIds : RecordWidgetLoadEnd(w)
  \/ Collect
  \/ \E r \in ReaderIds : GetMetrics(r)
  \/ \E r \in ReaderIds : ChangeSnapshot(r)
  \/ MonTick

SpecMonitor == InitMonitor /\ [][NextMonitor]_vars

\* ------------------- specification: the monitor is started and stopped
NextMonitorLife ==
  \/ \E i \in StartIds : MonitorStart(i)
  \/ \E i \in StartIds : CancelContext(i)
  \/ \E i \in StartIds : LoopContextDone(i)
  \/ \E i \in StartIds : LoopStopped(i)
  \/ \E i \in StartIds : LoopCollect(i)
  \/ MonitorStop
  \/ MonitorStopIdle
  \/ MonTick

SpecMonitorLife == InitMonitor /\ [][NextMonitorLife]_vars

\* ------------------- specification: the manager, callers keep running
\* The steps of SpecManager with weak fairness of what runs on the caller's
\* own goroutine: its select takes a ready case, and the clients it calls
\* directly return. The pools and the job Functions get no fairness: a job
\* may execute for ever or never be started.
CallerFairness ==
  \A c \in CallerIds :
    /\ WF_vars(WaitSuccess(c) \/ WaitFailure(c) \/ WaitCancelled(c))
    /\ WF_vars(\E o \in Outcomes : ReRequestReturns(c, o))
    /\ WF_vars(FallbackExhausted(c))
    /\ WF_vars(FallbackSkip(c))
    /\ WF_vars(FallbackCall(c))
    /\ WF_vars(\E o \in Outcomes : FallbackReturns(c, o))

SpecManagerLive == InitManager /\ [][NextManager]_vars /\ CallerFairness

\* ------------------------- specification: a pool that is never stopped
\* The steps of SpecPool but Stop, with weak fairness of the dispatch loop,
\* of every worker, of the job Functions (they terminate) and of the readers
\* of unbuffered Result channels (they are waiting). A buffered Result takes
\* its one write whether or not it is read, so its reader is left out.
NextLive ==
  \/ \E j \in JobIds, kind \in ResultKinds : Submit(PoolName, j, kind)
  \/ DispatchRecv(PoolName)
  \/ DispatchGetWorker(PoolName)
  \/ \E w \in WorkerIds : WorkerRegister(PoolName, w)
  \/ \E w \in WorkerIds : Handoff(PoolName, w)
  \/ \E w \in WorkerIds, e \in Errors : FunctionReturns(PoolName, w, e)
  \/ \E w \in WorkerIds : WorkerSendResult(PoolName, w)
  \/ \E w \in WorkerIds : WorkerHandResult(PoolName, w)

LiveFairness ==
  /\ WF_vars(DispatchRecv(PoolName))
  /\ WF_vars(DispatchGetWorker(PoolName))
  /\ \A w \in WorkerIds :
       /\ WF_vars(WorkerRegister(PoolName, w))
       /\ WF_vars(Handoff(PoolName, w))
       /\ WF_vars(\E e \in Errors : FunctionReturns(PoolName, w, e))
       /\ WF_vars(WorkerSendResult(PoolName, w))
       /\ WF_vars(WorkerHandResult(PoolName, w))

SpecLive == InitPool /\ [][NextLive]_vars /\ LiveFairness

\* ================================================================ claims
\* the jobs whose Function has been invoked and has not returned yet
Executing == {j \in JobIds : jobs[j].execs > Len(jobs[j].rets)}

\* the workers of the pool under test that run job j's Function
RunningOn(j) ==
  {w \in WorkerIds : worker[PoolName][w].pc = "run" /\ worker[PoolName][w].job = j}

\* the jobs Submit accepted that no worker has started
Pending == {j \in JobIds : jobs[j].st = "accepted" /\ jobs[j].execs = 0}

AllWorkersBusy == \A w \in WorkerIds : worker[PoolName][w].pc = "run"

\* how many places of the pool hold job j: the queue, the dispatch loop, the
\* workers
Holders(j) ==
  Cardinality({i \in 1..Len(jobQueue[PoolName]) : jobQueue[PoolName][i] = j})
  + (IF dispatch[PoolName].job = j THEN 1 ELSE 0)
  + Cardinality({w \in WorkerIds : worker[PoolName][w].job = j})

\* C1: at most maxWorkers jobs have their Function executing at any time,
\* each executing job is run by exactly one worker, once, and so no worker
\* runs two jobs at a time.
C1_BoundedConcurrency ==
  /\ Cardinality(Executing) <= MaxWorkers
  /\ \A j \in Executing :
       /\ jobs[j].execs = Len(jobs[j].rets) + 1
       /\ Cardinality(RunningOn(j)) = 1
  /\ \A w \in WorkerIds :
       worker[PoolName][w].pc = "run" => worker[PoolName][w].job \in Executing

C1_Witness == Cardinality(Executing) = MaxWorkers /\ Pending # {}

\* C2: Submit never blocks: a job can be submitted in every state; the job
\* is enqueued and nil returned when the queue has a free slot, ErrQueueFull
\* is returned and the queue left alone when it holds queueSize jobs; a
\* rejected job is held nowhere in the pool, is never executed and nothing
\* is written to its Result.
C2_RejectedInert ==
  \A j \in JobIds :
    jobs[j].st = "rejected" =>
      /\ Holders(j) = 0
      /\ jobs[j].execs = 0
      /\ jobs[j].written = <<>>
      /\ jobs[j].chan = <<>>

C2_NeverBlocks ==
  (\E j \in JobIds : jobs[j].st = "new") =>
    ENABLED (\E j \in JobIds, kind \in ResultKinds : Submit(PoolName, j, kind))

C2_SubmitStep ==
  \A j \in JobIds :
    (jobs[j].st = "new" /\ jobs'[j].st # "new") =>
      IF Len(jobQueue[PoolName]) < QueueSize
        THEN /\ jobs'[j].st = "accepted"
             /\ jobQueue'[PoolName] = Append(jobQueue[PoolName], j)
        ELSE /\ jobs'[j].st = "rejected"
             /\ jobQueue' = jobQueue

C2_SubmitNonBlocking ==
  /\ [](C2_RejectedInert /\ C2_NeverBlocks)
  /\ [][C2_SubmitStep]_vars

C2_Witness ==
  \E j, k \in JobIds :
    /\ jobs[j].st = "rejected"
    /\ jobs[k].st = "accepted" /\ jobs[k].written # <<>>

\* C3 as claimed: while every worker is busy, the jobs accepted and not yet
\* started number at most queueSize.
C3_Original == AllWorkersBusy => Cardinality(Pending) <= QueueSize

\* C3 as amended: the jobs accepted and not yet started number at most
\* queueSize + 1, the queue's slots plus the one job the dispatch loop has
\* taken off the queue and holds until a worker is idle; the queue itself
\* never holds more than queueSize jobs.
C3_PendingBound ==
  /\ Cardinality(Pending) <= QueueSize + 1
  /\ Len(jobQueue[PoolName]) <= QueueSize
  /\ Cardinality(Pending) = QueueSize + 1 =>
       /\ Len(jobQueue[PoolName]) = QueueSize
       /\ dispatch[PoolName].job \in Pending

C3_Witness ==
  /\ AllWorkersBusy
  /\ Cardinality(Pending) = QueueSize + 1
  /\ quit[PoolName] = FALSE

\* C4: an accepted job is held by at most one place of the pool, its
\* Function is invoked at most once, and each execution is followed by
\* exactly one write on a non-nil Result, of the value Function returned.
C4_ExactlyOnce ==
  \A j \in JobIds :
    /\ Holders(j) <= 1
    /\ jobs[j].execs <= 1
    /\ jobs[j].st # "accepted" => jobs[j].execs = 0
    /\ Len(jobs[j].rets) <= jobs[j].execs
    /\ Len(jobs[j].written) <= Len(jobs[j].rets)
    /\ \A i \in 1..Len(jobs[j].written) : jobs[j].written[i] = jobs[j].rets[i]
    /\ jobs[j].result = "nilchan" => jobs[j].written = <<>>
    /\ (jobs[j].result # "nilchan" /\ jobs[j].rets # <<>> /\ Holders(j) = 0) =>
         Len(jobs[j].written) = 1

C4_Witness ==
  \E j \in JobIds :
    /\ jobs[j].execs = 1
    /\ jobs[j].rets = <<"err">>
    /\ jobs[j].written = <<"err">>
    /\ Holders(j) = 0

\* the goroutines of the pool under test
AllExited ==
  /\ dispatch[PoolName].pc = "exit"
  /\ \A w \in WorkerIds : worker[PoolName][w].pc = "exit"

\* a step of a goroutine of the pool, of a running Function or of a reader
\* of a Result channel
GoroutineStep ==
  \/ PoolSteps
  \/ \E w \in WorkerIds, e \in Errors : FunctionReturns(PoolName, w, e)
  \/ \E j \in JobIds : ReadResult(j)

\* C5: once Stop was called, the dispatch loop and the workers exit: as long
\* as one of them has not exited, one of them can take a step (none is
\* blocked for good).
C5_StopExits == quit[PoolName] => (AllExited \/ ENABLED GoroutineStep)

\* C6: in a pool that is never stopped, every accepted job is eventually
\* executed and, when its Result is not nil, its result is eventually
\* written to it.
C6_EventuallyDelivered ==
  \A j \in JobIds :
    (jobs[j].st = "accepted") ~>
      (/\ Len(jobs[j].rets) = 1
       /\ jobs[j].result # "nilchan" => Len(jobs[j].written) = 1)

C6_Witness ==
  /\ \A j \in JobIds : jobs[j].st = "accepted" /\ Len(jobs[j].rets) = 1
  /\ \E j \in JobIds : jobs[j].result = "buf1" /\ Len(jobs[j].written) = 1

\* C7: a bucket created from a positive limit always has
\* 0 <= tokens <= capacity.
C7_TokensInRange ==
  \A s \in DOMAIN buckets :
    buckets[s].capacity > 0 =>
      (0 <= buckets[s].tokens /\ buckets[s].tokens <= buckets[s].capacity)

\* a bucket filled by the refill step of consume, two minutes or more after
\* the start, and emptied again by the Allow calls that followed
C7_Witness ==
  \E s \in DOMAIN buckets :
    /\ buckets[s].capacity > 1
    /\ allowLog[s].refilled
    /\ buckets[s].lastRefill >= 2 * TicksPerMinute
    /\ buckets[s].tokens = 0

\* C8: of the N Allow calls made on a service since its bucket was last
\* filled, exactly min(N, capacity) returned true.
C8_AdmitsExactlyCapacity ==
  \A s \in DOMAIN buckets :
    buckets[s].capacity >= 0 =>
      /\ allowLog[s].admitted = Min(allowLog[s].calls, buckets[s].capacity)
      /\ buckets[s].tokens = buckets[s].capacity - allowLog[s].admitted

C8_Witness ==
  \E s \in DOMAIN buckets :
    /\ buckets[s].capacity > 0
    /\ allowLog[s].calls = buckets[s].capacity + 1
    /\ allowLog[s].admitted = buckets[s].capacity

\* C9: an invocation for a name without a client returns (nil, not found)
\* in its first step and changes neither the limiter nor the pools nor any
\* job, and calls no client.
C9_Step ==
  \A c \in CallerIds :
    (callers[c].pc = "idle" /\ callers'[c].pc # "idle"
       /\ callers'[c].service \notin Registered) =>
      /\ callers'[c].pc = "done"
      /\ callers'[c].ret = [resp |-> NoResp, err |-> "notfound"]
      /\ callers'[c].calls = <<>>
      /\ UNCHANGED <<poolVars, jobs, limVars>>

C9_Inert ==
  \A c \in CallerIds :
    (callers[c].pc # "idle" /\ callers[c].service \notin Registered) =>
      /\ callers[c].pc = "done"
      /\ callers[c].ret.err = "notfound"
      /\ jobs[c].st = "new" /\ jobs[c].execs = 0
      /\ callers[c].calls = <<>> /\ callers[c].fb = 0
      /\ callers[c].service \notin DOMAIN buckets
      /\ callers[c].service \notin pools

C9_ServiceNotFound == []C9_Inert /\ [][C9_Step]_vars

C9_Witness ==
  \E c, d \in CallerIds :
    /\ callers[c].pc = "done" /\ callers[c].ret.err = "notfound"
    /\ callers[d].pc = "wait"

\* C10: when Allow returns false for a registered primary service, the
\* invocation returns (nil, rate limited) in that step: Allow was called
\* once, no pool is created or changed, no job is submitted and no client is
\* called, then or later.
C10_Step ==
  \A c \in CallerIds :
    (callers[c].pc = "idle" /\ callers'[c].pc # "idle"
       /\ callers'[c].service \in Registered
       /\ ~AllowResult(callers'[c].service)) =>
      /\ callers'[c].pc = "done"
      /\ callers'[c].ret = [resp |-> NoResp, err |-> "ratelimited"]
      /\ callers'[c].calls = <<>>
      /\ allowLog'[callers'[c].service].calls
           = allowLog[callers'[c].service].calls + 1
      /\ UNCHANGED <<poolVars, jobs>>

C10_Inert ==
  \A c \in CallerIds :
    (callers[c].pc = "done" /\ callers[c].ret.err = "ratelimited") =>
      /\ jobs[c].st = "new" /\ jobs[c].execs = 0
      /\ callers[c].calls = <<>> /\ callers[c].fb = 0

C10_RateLimited == []C10_Inert /\ [][C10_Step]_vars

C10_Witness ==
  \E c, d \in CallerIds :
    /\ callers[c].pc = "done" /\ callers[c].ret.err = "ratelimited"
    /\ callers[d].pc = "wait" /\ callers[d].service = callers[c].service

C11_EventuallyReturns ==
  \A c \in CallerIds :
    (callers[c].pc = "wait" /\ callers[c].ctxDone) ~> (callers[c].pc = "done")

C12_CancelWins ==
  [][\A c \in CallerIds :
       (/\ callers[c].pc = "wait"
        /\ callers[c].ctxDone
        /\ callers'[c].pc # "wait")
       => /\ callers'[c].pc = "done"
          /\ callers'[c].ret = [resp |-> NoResp, err |-> "ctx"]
          /\ callers'[c].calls = <<>>]_vars

\* ---------------------------------------------------------------------
\* the callers whose job reported an error, so that the fallback loop runs
OnFallbackPath ==
  {c \in CallerIds :
     \/ callers[c].pc \in {"fallback", "fbcall"}
     \/ callers[c].pc = "done" /\ callers[c].err = "err"}

\* the declared chain of the caller's primary service
DeclaredChain(c) == fallbacks[callers[c].service]

\* the entries among the first k of the declared chain that have a client
RegisteredPrefix(c, k) ==
  LET HasClient(n) == n \in Registered
  IN SelectSeq(SubSeq(DeclaredChain(c), 1, k), HasClient)

\* C13: after a primary failure the clients called are exactly the
\* registered entries of the primary's own declared chain, in declared
\* order and once each, up to the entry the loop stands at; the call returns
\* the response of the first fallback whose request succeeds and calls none
\* after it; entries of the fallbacks' own chains are never called.
C13_FallbackOrder ==
  \A c \in OnFallbackPath :
    LET r == callers[c] IN
      /\ r.fb \in 1..(Len(DeclaredChain(c)) + 1)
      /\ r.pc = "fallback" => r.calls = RegisteredPrefix(c, r.fb - 1)
      /\ r.pc = "fbcall" =>
            /\ r.fb <= Len(DeclaredChain(c))
            /\ r.calls = RegisteredPrefix(c, r.fb)
            /\ r.calls[Len(r.calls)] = DeclaredChain(c)[r.fb]
      /\ (r.pc = "done" /\ r.ret.err = "nil") =>
            /\ r.fb <= Len(DeclaredChain(c))
            /\ r.calls = RegisteredPrefix(c, r.fb)
            /\ r.ret.resp.from = DeclaredChain(c)[r.fb]
      /\ (r.pc = "done" /\ r.ret.err # "nil") =>
            /\ r.fb = Len(DeclaredChain(c)) + 1
            /\ r.calls = RegisteredPrefix(c, Len(DeclaredChain(c)))

\* the chain is [zhihu, custom, gitee]: the primary and zhihu failed, custom
\* has no client, gitee succeeded and its response is returned
C13_Witness ==
  \E c \in OnFallbackPath :
    /\ callers[c].pc = "done"
    /\ DeclaredChain(c) = <<"zhihu", "custom", "gitee">>
    /\ callers[c].calls = <<"zhihu", "gitee">>
    /\ callers[c].ret = [resp |-> RespOf("gitee", "ok"), err |-> "nil"]

\* ---------------------------------------------------------------------
\* C14: a step of a caller inside the fallback loop (looking up or calling a
\* fallback client, taking its answer, returning) leaves the rate limiter,
\* the pool registry, every pool and every job as they are: no token is
\* consumed, no bucket and no pool is created for the fallback's name and
\* no job is submitted. The fallback clients are called by the caller
\* itself, and the names that own a bucket or a pool are primaries only.
C14_FallbackFrame ==
  /\ [][\A c \in CallerIds :
          (callers[c].pc \in {"fallback", "fbcall"} /\ callers'[c] # callers[c])
          => UNCHANGED <<limVars, poolVars, jobs>>]_vars
  /\ [](\A c \in CallerIds :
          callers[c].pc = "fbcall" =>
            /\ (DOMAIN buckets) \cup pools \subseteq PrimaryNames
            /\ jobs[c].execs = Len(jobs[c].rets))

\* a caller of bilibili is inside the request of fallback zhihu, which has
\* neither a bucket nor a pool
C14_Witness ==
  \E c \in CallerIds :
    /\ callers[c].pc = "fbcall"
    /\ callers[c].service = "bilibili"
    /\ callers[c].calls = <<"zhihu">>
    /\ "zhihu" \notin (DOMAIN buckets) \cup pools
    /\ "bilibili" \in (DOMAIN buckets) \cap pools

\* ---------------------------------------------------------------------
\* C15: a call whose primary failed returns either the response of the
\* fallback it called last, with a nil error, or no response and the
\* all-services-failed error; the latter whenever no fallback succeeded:
\* every registered entry of the chain was called and failed, or the chain
\* is empty or names unregistered services only (then no client was called).
C15_AllFailed ==
  \A c \in OnFallbackPath :
    callers[c].pc = "done" =>
      IF callers[c].ret.err = "nil"
        THEN /\ callers[c].calls # <<>>
             /\ callers[c].ret.resp # NoResp
             /\ callers[c].ret.resp.from = callers[c].calls[Len(callers[c].calls)]
        ELSE /\ callers[c].ret = [resp |-> NoResp, err |-> "allfailed"]
             /\ callers[c].calls = RegisteredPrefix(c, Len(DeclaredChain(c)))

\* the primary and both registered fallbacks failed
C15_Witness ==
  \E c \in OnFallbackPath :
    /\ callers[c].pc = "done"
    /\ callers[c].calls = <<"zhihu", "gitee">>
    /\ callers[c].ret = [resp |-> NoResp, err |-> "allfailed"]

\* the chain is empty: all-services-failed without any fallback call
C15_EmptyChain ==
  \E c \in OnFallbackPath :
    /\ callers[c].pc = "done"
    /\ DeclaredChain(c) = <<>>
    /\ callers[c].ret = [resp |-> NoResp, err |-> "allfailed"]

\* the chain names an unregistered service only
C15_UnregisteredOnly ==
  \E c \in OnFallbackPath :
    /\ callers[c].pc = "done"
    /\ DeclaredChain(c) = <<"custom">>
    /\ callers[c].calls = <<>>
    /\ callers[c].ret = [resp |-> NoResp, err |-> "allfailed"]

\* ---------------------------------------------------------------------
\* the invocations for service s that have returned
Returned(s) == {c \in CallerIds : callers[c].pc = "done" /\ callers[c].service = s}

\* C16: at every moment the API-request counter of each service equals the
\* number of invocations for that service, as primary, that have returned,
\* by whatever path: each invocation adds exactly one on its return, to its
\* primary's counter only, and a service no invocation returned for (a
\* fallback among them) has no counters at all.
C16_OneMetricPerCall ==
  /\ \A s \in Names :
       MapGet(metrics.APIRequests, s, 0) = Cardinality(Returned(s))
  /\ DOMAIN metrics.APIRequests = {s \in Names : Returned(s) # {}}
  /\ DOMAIN metrics.APIErrors = DOMAIN metrics.APIRequests
  /\ DOMAIN metrics.APIResponseTimes = DOMAIN metrics.APIRequests

\* two invocations for bilibili returned, one rescued by fallback gitee and
\* one with the queue-full error: bilibili counts two, gitee nothing
C16_Witness ==
  /\ MapGet(metrics.APIRequests, "bilibili", 0) = 2
  /\ "gitee" \notin DOMAIN metrics.APIRequests
  /\ \E c \in CallerIds : callers[c].pc = "done" /\ callers[c].ret.err = "queuefull"
  /\ \E c \in CallerIds : callers[c].pc = "done" /\ callers[c].ret.resp.from = "gitee"

\* ---------------------------------------------------------------------
\* C17: the error counter of each service equals the number of returned
\* invocations for it that returned a non-nil error: a call rescued by a
\* fallback counts as a success, a call rejected with queue-full as an error.
C17_ErrorFlagMatches ==
  \A s \in Names :
    MapGet(metrics.APIErrors, s, 0)
      = Cardinality({c \in Returned(s) : callers[c].ret.err # "nil"})

\* ---------------------------------------------------------------------
\* the step in which Get, having read an item, checks its expiry and returns
GetReturns(g) == getters[g].pc = "check" /\ getters'[g].pc = "done"

C19_RoundTrip ==
  [][\A g \in GetterIds :
       GetReturns(g) =>
         IF now <= getters[g].want.expiry
           THEN getters'[g].res = [err |-> "nil", value |-> getters[g].want.v]
           ELSE /\ getters'[g].res.err # "nil"
                /\ getters'[g].res.value = NoValue]_vars

\* Set("a", "a", ttl) and, after time has passed but within the ttl, a Get
\* that returned the string
C19_Witness ==
  \E g \in GetterIds :
    /\ getters[g].pc = "done"
    /\ getters[g].key = "a"
    /\ getters[g].res = [err |-> "nil", value |-> Str(<<"a">>)]
    /\ "a" \in DOMAIN cache.data
    /\ cache.data["a"].value = <<"\"", "a", "\"">>
    /\ now > 0

\* ---------------------------------------------------------------------
\* the total size of the stored entries
RECURSIVE SizeOf(_, _)
SizeOf(data, keys) ==
  IF keys = {} THEN 0
  ELSE LET k == CHOOSE x \in keys : TRUE
       IN Len(data[k].value) + SizeOf(data, keys \ {k})

TotalSize(c) == SizeOf(c.data, DOMAIN c.data)

\* C20: with a positive maxSize and Set called on distinct keys only, the
\* total size of the stored entries after a Set does not exceed maxSize
\* plus the size of the value that Set inserted.
C20_EvictionBound ==
  [][\A k \in (DOMAIN cache'.data) \ (DOMAIN cache.data) :
       TotalSize(cache') <= cache.maxSize + Len(cache'.data[k].value)]_vars

\* ---------------------------------------------------------------------
\* the Allow calls on a name that have a bucket in hand, and those admitted
Holding(s) ==
  {a \in AllowerIds :
     allowers[a].service = s /\ allowers[a].pc \in {"consume", "done"}}

Admitted(s) ==
  {a \in AllowerIds :
     allowers[a].service = s /\ allowers[a].pc = "done" /\ allowers[a].ret}

\* C21: under concurrent first use of a name by several Allow calls one
\* bucket is built for it, the map holds that bucket and no other, every
\* caller holds and consumes from it (the tokens taken from it are those of
\* all admitted callers), and a name maps to at most one bucket at any time.
C21_OneBucket ==
  \A s \in Names :
    /\ limiterSync.made[s] <= 1
    /\ s \in DOMAIN buckets <=> limiterSync.made[s] = 1
    /\ limiterSync.cur[s] = limiterSync.made[s]
    /\ \A a \in Holding(s) : allowers[a].bucket = 1 /\ limiterSync.cur[s] = 1
    /\ s \in DOMAIN buckets =>
         buckets[s].tokens = buckets[s].capacity - Cardinality(Admitted(s))

\* three callers used one name that had no bucket: one bucket was built,
\* all returned, two were admitted and the third found it empty
C21_Witness ==
  \E s \in Names :
    /\ \A a \in AllowerIds : allowers[a].pc = "done" /\ allowers[a].service = s
    /\ limiterSync.made[s] = 1
    /\ buckets[s].capacity = 2
    /\ Cardinality(Admitted(s)) = 2
    /\ buckets[s].tokens = 0

\* ---------------------------------------------------------------------
\* the GetOrCreatePool calls on a name that have returned
Served(n) ==
  {a \in PoolerIds : poolers[a].name = n /\ poolers[a].pc = "done"}

\* C22: under concurrent first calls of GetOrCreatePool with one name a
\* single WorkerPool is built and Start is called on it once, every call
\* returns that pool, as does every later call, and a returned pool has been
\* started before it is returned.
C22_OnePool ==
  \A n \in Names :
    /\ optimizerSync.made[n] <= 1
    /\ optimizerSync.started[n] <= optimizerSync.made[n]
    /\ n \in pools =>
         /\ optimizerSync.cur[n] = 1
         /\ optimizerSync.started[n] = 1
    /\ \A a \in Served(n) :
         /\ n \in pools
         /\ poolers[a].pool = 1
         /\ poolers[a].running

\* three callers asked for the pool of one name that had none: each came
\* back with the one pool, which was built and started once
C22_Witness ==
  \E n \in Names :
    /\ Served(n) = PoolerIds
    /\ optimizerSync.made[n] = 1
    /\ optimizerSync.started[n] = 1
    /\ n \in pools

\* ---------------------------------------------------------------------
\* the workers that ran the function of a job and are about to send what it
\* returned on the job's result channel
Delivering == {<<p, w>> \in pools \X WorkerIds : worker[p][w].pc = "result"}

\* C23: the result of a job that RequestWithFallback submitted can always
\* be delivered: whenever a worker is about to send it, the send can
\* complete, whether the caller still waits or has returned on a cancelled
\* context; in that case the value stays in the channel, read by no one.
C23_ResultNeverBlocks ==
  /\ \A pw \in Delivering : ENABLED WorkerSendResult(pw[1], pw[2])
  /\ \A c \in CallerIds :
       (callers[c].pc = "done" /\ callers[c].ret.err = "ctx")
         => jobs[c].chan = jobs[c].written

\* a caller returned the context's error, and afterwards a worker ran its
\* job and sent the result, which sits in the channel
C23_Witness ==
  \E c \in CallerIds :
    /\ callers[c].pc = "done"
    /\ callers[c].ret.err = "ctx"
    /\ jobs[c].execs = 1
    /\ Len(jobs[c].chan) = 1
    /\ Delivering = {}

\* ---------------------------------------------------------------------
\* the callers that read a nil result of their pooled job from the channel
PoolSucceeded ==
  {c \in CallerIds : jobs[c].written = <<"nil">> /\ jobs[c].chan = <<>>}

\* the calls on a service that Allow admitted
AdmittedCalls(s) ==
  {c \in CallerIds :
     /\ callers[c].service = s
     /\ callers[c].pc # "idle"
     /\ callers[c].ret.err \notin {"notfound", "ratelimited"}}

\* C26: a caller whose pooled job reported success requests the primary once
\* more on its own goroutine and returns that response with a nil error: the
\* job's function ran once, the caller called the primary once and no
\* fallback, and each admitted call took one token from the bucket.
C26_RequestedTwice ==
  \A c \in PoolSucceeded :
    LET r == callers[c] IN
      /\ r.pc \in {"rerequest", "done"}
      /\ jobs[c].execs = 1
      /\ r.calls = <<r.service>>
      /\ r.fb = 0
      /\ r.pc = "done" =>
           /\ r.ret.err = "nil"
           /\ r.ret.resp \in {RespOf(r.service, o) : o \in Outcomes}
      /\ buckets[r.service].tokens
           = buckets[r.service].capacity - Cardinality(AdmittedCalls(r.service))

\* a caller returned the response of its own second request after the pooled
\* request had succeeded
C26_Witness ==
  \E c \in PoolSucceeded :
    /\ callers[c].pc = "done"
    /\ callers[c].ret = [resp |-> RespOf(callers[c].service, "ok"), err |-> "nil"]
    /\ jobs[c].execs = 1
    /\ callers[c].calls = <<callers[c].service>>

\* ---------------------------------------------------------------------
\* the jobs waiting in a queue or held by a goroutine of a pool
InPool(j) ==
  \E p \in Names :
    \/ \E i \in 1..Len(jobQueue[p]) : jobQueue[p][i] = j
    \/ dispatch[p].job = j
    \/ \E w \in WorkerIds : worker[p][w].job = j

\* C27: when Submit finds the queue full the caller has returned a nil
\* response and the queue-full error in that step: it is never left waiting
\* for a result, the job is in no queue and with no worker, its function does
\* not run, nothing is sent on its channel and no client was called.
C27_QueueFullReturns ==
  \A c \in CallerIds :
    jobs[c].st = "rejected" =>
      /\ callers[c].pc = "done"
      /\ callers[c].ret = [resp |-> NoResp, err |-> "queuefull"]
      /\ callers[c].calls = <<>>
      /\ callers[c].fb = 0
      /\ jobs[c].execs = 0
      /\ jobs[c].written = <<>>
      /\ ~InPool(c)

\* a caller was turned away by a full queue while the job of another caller
\* was still waiting in it
C27_Witness ==
  \E c \in CallerIds :
    /\ jobs[c].st = "rejected"
    /\ callers[c].ret.err = "queuefull"
    /\ jobQueue[callers[c].service] # <<>>

\* ---------------------------------------------------------------------
\* the whole minutes since the bucket was last refilled
MinutesSince(b) == (now - b.lastRefill) \div TicksPerMinute

\* the tokens consume leaves of r tokens
AfterConsume(r) == IF r > 0 THEN r - 1 ELSE r

\* an Allow step on a service that has a bucket refills it as if by n
\* minutes and then consumes
AllowRefills(s, n) ==
  LET b == buckets[s] IN
    IF n >= 1
      THEN /\ buckets'[s].tokens
                = AfterConsume(Min(b.capacity, b.tokens + n * b.refillRate))
           /\ buckets'[s].lastRefill = now
      ELSE /\ buckets'[s].tokens = AfterConsume(b.tokens)
           /\ buckets'[s].lastRefill = b.lastRefill

\* tokens are added to a stored bucket by Allow and Reset only
AddedByCallsOnly ==
  \A s \in DOMAIN buckets :
    buckets'[s].tokens > buckets[s].tokens => Allow(s) \/ Reset(s)

\* C28 as stated: with n the whole minutes since lastRefill, Allow adds no
\* token and keeps lastRefill when n = 0, and for n >= 1 sets tokens to
\* min(capacity, tokens + n * refillRate) before consuming and lastRefill to
\* the current time; tokens are added by Allow and Reset only.
C28_Original ==
  [][/\ \A s \in DOMAIN buckets :
          Allow(s) => AllowRefills(s, MinutesSince(buckets[s]))
     /\ AddedByCallsOnly]_vars

\* C28, amended: the refill takes place when n >= 1 and refillRate > 0; with
\* a refillRate of zero or less Allow adds nothing and keeps lastRefill
\* however much time has passed.
C28_LazyRefill ==
  [][/\ \A s \in DOMAIN buckets :
          Allow(s) =>
            AllowRefills(s, IF buckets[s].refillRate > 0
                              THEN MinutesSince(buckets[s]) ELSE 0)
     /\ AddedByCallsOnly]_vars

\* an emptied bucket of capacity 2 was refilled by an Allow a minute or more
\* after its creation, and that Allow took one of the two tokens
C28_Witness ==
  \E s \in DOMAIN buckets :
    /\ allowLog[s].refilled
    /\ allowLog[s].calls = 1
    /\ buckets[s].lastRefill = now
    /\ now >= TicksPerMinute
    /\ buckets[s].capacity = 2
    /\ buckets[s].tokens = 1

\* ---------------------------------------------------------------------
\* a Reset step on a service with a bucket fills that bucket and leaves the
\* others as they are
ResetFills(s) ==
  /\ DOMAIN buckets' = DOMAIN buckets
  /\ buckets'[s].tokens = buckets[s].capacity
  /\ buckets'[s].capacity = buckets[s].capacity
  /\ buckets'[s].refillRate = buckets[s].refillRate
  /\ \A o \in (DOMAIN buckets) \ {s} : buckets'[o] = buckets[o]

\* the Allow calls on a filled bucket before its next refill: call k is
\* admitted for k up to the capacity
AdmittedWhileFull(s) ==
  /\ buckets[s].tokens = buckets[s].capacity - allowLog[s].admitted
  /\ allowLog[s].calls <= buckets[s].capacity
       => allowLog[s].admitted = allowLog[s].calls

\* C29: Reset(s) on a service with a bucket leaves that bucket with tokens
\* equal to its capacity, so that the Allow calls that follow within the
\* minute are admitted up to the capacity, and leaves every other bucket
\* unchanged; Reset on a service without a bucket creates none and changes
\* nothing.
C29_ResetFills ==
  /\ [][\A s \in DOMAIN buckets : Reset(s) => ResetFills(s)]_vars
  /\ [](\A s \in DOMAIN buckets :
          ~allowLog[s].refilled => AdmittedWhileFull(s))
  /\ [](\A s \in LimiterNames \ DOMAIN buckets :
          ~ENABLED (Reset(s) /\ vars' # vars))

\* Reset has just filled a bucket of capacity 2 (no Allow was called on it
\* since), and the bucket of the other service, which is not full, is there
C29_Witness ==
  \E s \in DOMAIN buckets :
    /\ allowLog[s] = NoCalls
    /\ buckets[s].capacity = 2
    /\ buckets[s].tokens = 2
    /\ \E o \in (DOMAIN buckets) \ {s} : buckets[o].tokens < buckets[o].capacity

\* ---------------------------------------------------------------------
\* the stored keys whose expiry is the earliest
Earliest(data) ==
  {k \in DOMAIN data :
     \A o \in DOMAIN data : data[k].expiredAt <= data[o].expiredAt}

\* Set must make room: the marshalled value does not fit under a positive
\* maxSize and there is an entry to remove
MustEvict(c, size) ==
  c.maxSize > 0 /\ c.currentSize + size > c.maxSize /\ DOMAIN c.data # {}

\* C30: a Set that must make room removes one entry before it inserts, an
\* entry whose expiry is the earliest of those stored, whatever the keys
\* (the empty string included); a Set that need not make room removes none.
C30_EvictsEarliest ==
  [][\A k \in CacheKeys, v \in CacheValues, ttl \in TTLs :
       (Set(k, v, ttl) /\ ~Marshal(v).err) =>
          IF MustEvict(cache, Len(Marshal(v).data))
            THEN \E x \in Earliest(cache.data) :
                   cache'.data
                     = MapPut(MapRemove(cache.data, {x}), k, cache'.data[k])
            ELSE cache'.data = MapPut(cache.data, k, cache'.data[k])]_vars

\* ---------------------------------------------------------------------
\* the maps of a Metrics value that are filled together have the same keys
KeysAgree(v) ==
  /\ DOMAIN v.APIErrors = DOMAIN v.APIRequests
  /\ DOMAIN v.APIResponseTimes = DOMAIN v.APIRequests
  /\ DOMAIN v.WidgetErrors = DOMAIN v.WidgetLoadTimes

\* C24: whatever the interleaving of GetMetrics with the record calls and
\* the collection loop, a snapshot is the value that the record calls and
\* collections completed before it give when applied one after another; it
\* shows no call half applied, such as a service that is in APIRequests and
\* not in APIErrors or APIResponseTimes.
C24_SerialSnapshots ==
  \A r \in ReaderIds :
    readers[r].pc = "taken" =>
      /\ readers[r].own = readers[r].serial
      /\ KeysAgree(readers[r].own)

\* a snapshot taken after one record call, while the next record call holds
\* the lock with the service in APIRequests and not yet in APIErrors
C24_Witness ==
  \E r \in ReaderIds :
    /\ readers[r].pc = "taken"
    /\ readers[r].own.HTTPRequests = 1
    /\ mon.mu # NoWriter
    /\ "bilibili" \in DOMAIN mon.heap[MonitorOwner].APIRequests
    /\ "bilibili" \notin DOMAIN mon.heap[MonitorOwner].APIErrors
    /\ "bilibili" \notin DOMAIN readers[r].own.APIRequests

\* C25: a snapshot is independent of the monitor: whatever record calls
\* follow, the snapshot a reader holds has the scalars and maps it had when
\* it was returned, with the reader's own changes; and a reader's changes to
\* its snapshot's maps leave the monitor's metrics, which later GetMetrics
\* calls copy, as the record calls made them.
C25_Independent ==
  /\ \A r \in ReaderIds :
       readers[r].pc # "idle" => Deref(readers[r].snap) = readers[r].own
  /\ mon.mu = NoWriter => Deref(mon.m) = mon.serial
  /\ Intruder \notin DOMAIN mon.heap[MonitorOwner].APIRequests

\* a reader wrote into the snapshot it took before two record calls: the
\* snapshot has its key and no request, the monitor has the requests
C25_Witness ==
  \E r \in ReaderIds :
    /\ readers[r].pc = "changed"
    /\ Intruder \in DOMAIN Deref(readers[r].snap).APIRequests
    /\ Deref(readers[r].snap).HTTPRequests = 0
    /\ Deref(mon.m).HTTPRequests = 1
    /\ Deref(mon.m).APIRequests = [s \in MonServices |-> 1]
    /\ mon.records = 2

\* ---------------------------------------------------------------------
\* the RecordAPIRequest(s, d, isError) that runs when an invocation returns
\* adds one to APIRequests[s], one to APIErrors[s] if isError and nothing
\* otherwise, and leaves the entries of the other services as they are
RecordsOne(s, isError) ==
  /\ metrics'.APIRequests[s] = MapGet(metrics.APIRequests, s, 0) + 1
  /\ metrics'.APIErrors[s]
       = MapGet(metrics.APIErrors, s, 0) + IF isError THEN 1 ELSE 0
  /\ \A o \in Names \ {s} :
       /\ o \in DOMAIN metrics'.APIRequests <=> o \in DOMAIN metrics.APIRequests
       /\ o \in DOMAIN metrics.APIRequests =>
            /\ metrics'.APIRequests[o] = metrics.APIRequests[o]
            /\ metrics'.APIErrors[o] = metrics.APIErrors[o]
            /\ metrics'.APIResponseTimes[o] = metrics.APIResponseTimes[o]

\* C31: each RecordAPIRequest(s, d, isError) adds exactly one to
\* APIRequests[s], one to APIErrors[s] if and only if isError, and leaves the
\* entries of every other service unchanged; so 0 <= APIErrors[s] <=
\* APIRequests[s] for every service in every reachable state.
C31_CountsPerCall ==
  /\ [][\A c \in CallerIds :
          (callers[c].pc # "done" /\ callers'[c].pc = "done") =>
             RecordsOne(callers'[c].service, callers'[c].err # "nil")]_vars
  /\ [](\A s \in DOMAIN metrics.APIRequests :
          /\ 0 <= metrics.APIErrors[s]
          /\ metrics.APIErrors[s] <= metrics.APIRequests[s])

\* bilibili was recorded once without an error, then custom once with one
C31_Witness ==
  /\ MapGet(metrics.APIRequests, "bilibili", 0) = 1
  /\ MapGet(metrics.APIErrors, "bilibili", 1) = 0
  /\ MapGet(metrics.APIRequests, "custom", 0) = 1
  /\ MapGet(metrics.APIErrors, "custom", 0) = 1

\* ---------------------------------------------------------------------
\* the recorders that complete a RecordWidgetLoad in this step
WidgetLoadEnds(w) ==
  /\ recorders[w].pc = "second"
  /\ recorders[w].op = "widget"
  /\ recorders'[w].pc = "idle"

\* C32: the first RecordWidgetLoad(w, d, false) sets WidgetLoadTimes[w] to
\* d and each later one to (old + d) / 2, whatever the API-request counters
\* are; a RecordWidgetLoad(w, d, true) adds one to WidgetErrors[w] and
\* leaves WidgetLoadTimes[w] as it was.
C32_WidgetAverage ==
  [][\A w \in RecorderIds :
       WidgetLoadEnds(w) =>
         LET t == recorders[w].name
             d == recorders[w].duration
             old == mon.heap[MonitorOwner]
             new == mon'.heap[MonitorOwner]
         IN IF recorders[w].isError
              THEN /\ new.WidgetErrors[t] = MapGet(old.WidgetErrors, t, 0) + 1
                   /\ new.WidgetLoadTimes[t] = MapGet(old.WidgetLoadTimes, t, 0)
              ELSE new.WidgetLoadTimes[t]
                     = IF t \in mon.loaded
                         THEN (old.WidgetLoadTimes[t] + d) \div 2 ELSE d]_vars

\* ---------------------------------------------------------------------
\* C33: in every reachable state of the cache, whatever calls of Set (on new
\* and on stored keys), Get, Delete, Clear, the sweep and the eviction led
\* to it, currentSize is the sum of the lengths of the stored values, and it
\* is not negative.
C33_SizeExact ==
  /\ cache.currentSize = TotalSize(cache)
  /\ cache.currentSize >= 0

\* ---------------------------------------------------------------------
\* C34: a Get that read an expired entry of key k removes that entry only:
\* when a Set stored a fresh value for k between Get's read and its Delete,
\* the fresh entry is still stored, and its size accounted, after the Get
\* has returned.
C34_ExpiredOnly ==
  [][\A g \in GetterIds :
       (/\ getters[g].pc = "check"
        /\ getters'[g].pc = "done"
        /\ getters[g].key \in DOMAIN cache.data
        /\ ~Expired(cache.data[getters[g].key], now))
         => /\ getters[g].key \in DOMAIN cache'.data
            /\ cache'.data[getters[g].key] = cache.data[getters[g].key]
            /\ cache'.currentSize = cache.currentSize]_vars

\* C35: a primary request that completes without a transport error but with
\* an HTTP status of 400 or more counts as a failure of the primary: the job
\* whose Function made that request reports an error to the pool (so that
\* RequestWithFallback makes no second request and walks the fallbacks).
StatusFailureReturns(p, w) ==
  /\ FunctionReturns(p, w, FunctionError("http_error"))
  /\ RespOf(p, "http_error") # NoResp
  /\ RespOf(p, "http_error").status = "http_error"

C35_StatusIsFailure ==
  [][\A p \in PrimaryNames, w \in WorkerIds :
       StatusFailureReturns(p, w) => worker'[p][w].err # "nil"]_vars

\* C36: whenever RequestWithFallback returns a nil error, the response it
\* returns is non-nil; in particular a failure of the synchronous re-request
\* is reported as an error.
C36_NilErrorHasResponse ==
  \A c \in CallerIds :
    (callers[c].pc = "done" /\ callers[c].ret.err = "nil")
      => callers[c].ret.resp # NoResp

\* the Request calls in flight against the primary client of service s:
\* those made by the job Functions the pool's workers are executing and the
\* synchronous re-requests of the invocations themselves
PooledRequests(s) ==
  {w \in WorkerIds : s \in pools /\ worker[s][w].pc = "run"}

DirectRequests(s) ==
  {c \in CallerIds : callers[c].pc = "rerequest" /\ callers[c].service = s}

\* C37: the number of Request calls in flight against one service's primary
\* client that were issued through RequestWithFallback is at most the
\* pool's maxWorkers.
C37_InFlightBounded ==
  \A s \in PrimaryNames :
    Cardinality(PooledRequests(s)) + Cardinality(DirectRequests(s)) <= MaxWorkers

\* the invocations on service s that passed the rate limiter and whose job
\* the pool did not reject
AcceptedCalls(s) == {c \in AdmittedCalls(s) : jobs[c].st # "rejected"}

\* C40: a rate-limit token is consumed only by the invocations whose job the
\* pool accepts: once an invocation was rejected by a full queue, the tokens
\* missing from its service's bucket are those of the other invocations.
C40_RejectedKeepsToken ==
  \A c \in CallerIds :
    jobs[c].st = "rejected" =>
      LET s == callers[c].service
      IN  buckets[s].tokens
            = buckets[s].capacity - Cardinality(AcceptedCalls(s))

\* C39: after WorkerPool.Stop has returned no job begins execution: the
\* jobs still queued and the jobs accepted afterwards are never run and
\* nothing is written to their Result channels.
C39_StoppedRunsNothing ==
  [][quit[PoolName] =>
       \A j \in JobIds :
         /\ jobs'[j].execs = jobs[j].execs
         /\ (jobs[j].execs = 0 => jobs'[j].written = <<>>)]_vars

\* C38: for every sequence of Monitor.Start and Monitor.Stop calls (Stop
\* before any Start, Start, Stop, Start, Stop, or Stop after the context was
\* cancelled) no call panics: the stop channel is closed at most once.
C38_StopNeverPanics == ~mon.life.panicked
====
